---- MODULE Spec2Model ----
(***************************************************************************)
(* Model of the Meinberg LTOS exporter: the API client (FetchStatus), the  *)
(* two string parsers (parseCPULoad, parseMemory) and the Prometheus       *)
(* collector (Collect).                                                    *)
(*                                                                         *)
(* Go strings are sequences of one-character strings.  A float64 is an     *)
(* exact decimal [m |-> mantissa, e |-> exponent] in canonical form (the   *)
(* mantissa has no trailing zero; zero is [m |-> 0, e |-> 0]).  A decoded  *)
(* JSON value (Go `any`) is a tagged record [t |-> tag, v |-> payload].    *)
(***************************************************************************)
EXTENDS Integers, Sequences, FiniteSets, TLC

VARIABLES
    client,      \* the Client: baseURL, authBasicUser, authBasicPass
    device,      \* what the polled device answers to GET /api/status right now
    ch,          \* the metrics sent on the channel of the latest Collect call
    status,      \* "idle" | "returned" | "panicked": how the latest Collect ended
    requests,    \* the HTTP requests issued by the latest Collect call
    fetched,     \* what FetchStatus returned to the latest Collect call
    calls,       \* the Collect calls in flight at once: each one's position, the
                 \* result of its FetchStatus call and its own channel
    firstScrape, \* history: what the first Collect call fetched and emitted, and
                 \* whether a later call has fetched something else since
    health,      \* the result of the latest CheckHealth call
    cpuloadStr,  \* argument of the latest parseCPULoad call
    cpuResult,   \* its result
    memoryStr,   \* argument of the latest parseMemory call
    memResult    \* its result

vars == <<health, client, device, ch, status, requests, fetched, calls, firstScrape,
          cpuloadStr, cpuResult, memoryStr, memResult>>

----------------------------------------------------------------------------
(* float64 as exact decimals *)

RECURSIVE Norm(_, _)
Norm(m, e) ==
    IF m = 0 THEN [m |-> 0, e |-> 0]
    ELSE IF m % 10 = 0 THEN Norm(m \div 10, e + 1)
    ELSE [m |-> m, e |-> e]

F(n) == Norm(n, 0)

Zero == F(0)

One == F(1)

Times(d, n) == Norm(d.m * n, d.e)

----------------------------------------------------------------------------
(* strings *)

Digits == {"0", "1", "2", "3", "4", "5", "6", "7", "8", "9"}

DigitVal(c) ==
    CASE c = "0" -> 0 [] c = "1" -> 1 [] c = "2" -> 2 [] c = "3" -> 3
      [] c = "4" -> 4 [] c = "5" -> 5 [] c = "6" -> 6 [] c = "7" -> 7
      [] c = "8" -> 8 [] c = "9" -> 9

\* unicode.IsSpace, restricted to the characters the model's strings use
IsSpace(c) == c \in {" ", "\t", "\n", "\r"}

AllDigits(s) == \A i \in 1..Len(s) : s[i] \in Digits

RECURSIVE Atoi(_)
Atoi(s) == IF s = <<>> THEN 0 ELSE 10 * Atoi(SubSeq(s, 1, Len(s) - 1)) + DigitVal(s[Len(s)])

\* strings.Fields: the maximal runs of non-space characters, in order
RECURSIVE Fields(_)
Fields(s) ==
    IF s = <<>> THEN <<>>
    ELSE IF IsSpace(s[1]) THEN Fields(Tail(s))
    ELSE LET stops == {i \in 1..Len(s) : IsSpace(s[i])}
             end   == IF stops = {} THEN Len(s) + 1
                      ELSE CHOOSE i \in stops : \A j \in stops : i <= j
         IN  <<SubSeq(s, 1, end - 1)>> \o Fields(SubSeq(s, end, Len(s)))

\* strconv.ParseFloat(s, 64) on plain decimal notation: an optional sign, then
\* digits with at most one '.', at least one digit in all.  Every other
\* string over the model's characters is a syntax error.
ParseFloat(s) ==
    LET signed == s # <<>> /\ s[1] \in {"+", "-"}
        body   == IF signed THEN Tail(s) ELSE s
        dots   == {i \in 1..Len(body) : body[i] = "."}
        digs   == SelectSeq(body, LAMBDA c : c \in Digits)
        wellFormed ==
            /\ \A i \in 1..Len(body) : body[i] \in Digits \cup {"."}
            /\ Cardinality(dots) <= 1
            /\ digs # <<>>
        frac   == IF dots = {} THEN 0
                  ELSE Len(body) - (CHOOSE i \in dots : TRUE)
        mag    == Norm(Atoi(digs), 0 - frac)
    IN  IF ~wellFormed THEN [err |-> TRUE, val |-> Zero]
        ELSE [err |-> FALSE,
              val |-> IF signed /\ s[1] = "-" THEN [m |-> 0 - mag.m, e |-> mag.e]
                      ELSE mag]

----------------------------------------------------------------------------
(* parseCPULoad *)

CPUError == [err |-> TRUE, load1 |-> Zero, load5 |-> Zero, load15 |-> Zero]

\* parseCPULoad with the 15-minute value parsed from the second field
parseCPULoad_reparsesSecond(s) ==
    LET parts == Fields(s)
    IN  IF Len(parts) < 3 THEN CPUError
        ELSE LET r1 == ParseFloat(parts[1])
                 r2 == ParseFloat(parts[2])
                 r3 == ParseFloat(parts[2])
             IN  IF r1.err THEN CPUError
                 ELSE IF r2.err THEN CPUError
                 ELSE IF r3.err THEN CPUError
                 ELSE [err |-> FALSE, load1 |-> r1.val, load5 |-> r2.val,
                       load15 |-> r3.val]

parseCPULoad(s) ==
    LET parts == Fields(s)
    IN  IF Len(parts) < 3 THEN CPUError
        ELSE LET r1 == ParseFloat(parts[1])
                 r2 == ParseFloat(parts[2])
                 r3 == ParseFloat(parts[3])
             IN  IF r1.err THEN CPUError
                 ELSE IF r2.err THEN CPUError
                 ELSE IF r3.err THEN CPUError
                 ELSE [err |-> FALSE, load1 |-> r1.val, load5 |-> r2.val,
                       load15 |-> r3.val]

----------------------------------------------------------------------------
(* parseMemory *)

\* the class \s of Go's regexp package
ReSpace == {" ", "\t", "\n", "\r", "\f"}

kB == <<"k", "B">>

total == <<"t", "o", "t", "a", "l">>

free == <<"f", "r", "e", "e">>

HasPrefixAt(s, i, w) ==
    /\ i + Len(w) - 1 <= Len(s)
    /\ SubSeq(s, i, i + Len(w) - 1) = w

\* the first position at or after i whose character is not in the class
RECURSIVE SkipRun(_, _, _)
SkipRun(s, i, class) ==
    IF i <= Len(s) /\ s[i] \in class THEN SkipRun(s, i + 1, class) ELSE i

\* a match of (\d+)\s+kB\s+<word> that begins at position i: the two classes
\* \d and \s are disjoint and 'k' is in neither, so each run is taken whole
MatchAt(s, i, word) ==
    LET d == SkipRun(s, i, Digits)
        w == SkipRun(s, d, ReSpace)
        u == w + Len(kB)
        x == SkipRun(s, u, ReSpace)
    IN  [ok |-> /\ d > i
                /\ w > d
                /\ HasPrefixAt(s, w, kB)
                /\ x > u
                /\ HasPrefixAt(s, x, word),
         group |-> SubSeq(s, i, d - 1),
         last  |-> x + Len(word) - 1]

\* regexp.FindStringSubmatch: the leftmost match; <<>> when there is none,
\* else <<whole match, group 1>>
FindStringSubmatch(s, word) ==
    LET starts == {i \in 1..Len(s) : MatchAt(s, i, word).ok}
    IN  IF starts = {} THEN <<>>
        ELSE LET i == CHOOSE k \in starts : \A j \in starts : k <= j
                 m == MatchAt(s, i, word)
             IN  <<SubSeq(s, i, m.last), m.group>>

MemError == [err |-> TRUE, totalBytes |-> Zero, freeBytes |-> Zero]

KiB == 1024

\* parseMemory that reports the total alone when the free figure is missing
parseMemory_partial(s) ==
    LET totalMatches == FindStringSubmatch(s, total)
        freeMatches  == FindStringSubmatch(s, free)
    IN  IF Len(totalMatches) < 2 THEN MemError
        ELSE LET t == ParseFloat(totalMatches[2])
             IN  IF t.err THEN MemError
                 ELSE IF Len(freeMatches) < 2
                      THEN [err |-> FALSE, totalBytes |-> Times(t.val, KiB),
                            freeBytes |-> Zero]
                 ELSE LET f == ParseFloat(freeMatches[2])
                      IN  IF f.err THEN MemError
                          ELSE [err |-> FALSE,
                                totalBytes |-> Times(t.val, KiB),
                                freeBytes  |-> Times(f.val, KiB)]

parseMemory(s) ==
    LET totalMatches == FindStringSubmatch(s, total)
        freeMatches  == FindStringSubmatch(s, free)
    IN  IF Len(totalMatches) < 2 THEN MemError
        ELSE LET t == ParseFloat(totalMatches[2])
             IN  IF t.err THEN MemError
                 ELSE IF Len(freeMatches) < 2 THEN MemError
                 ELSE LET f == ParseFloat(freeMatches[2])
                      IN  IF f.err THEN MemError
                          ELSE [err |-> FALSE,
                                totalBytes |-> Times(t.val, KiB),
                                freeBytes  |-> Times(f.val, KiB)]

----------------------------------------------------------------------------
(* time.Parse("2006-01-02T15:04:05", s) and Time.Unix *)

\* days from 1970-01-01 to the civil date y-m-d (proleptic Gregorian)
DaysFromCivil(y, m, d) ==
    LET yy  == IF m <= 2 THEN y - 1 ELSE y
        era == yy \div 400
        yoe == yy - era * 400
        mp  == IF m > 2 THEN m - 3 ELSE m + 9
        doy == (153 * mp + 2) \div 5 + d - 1
        doe == yoe * 365 + yoe \div 4 - yoe \div 100 + doy
    IN  era * 146097 + doe - 719468

IsLeap(y) == y % 4 = 0 /\ (y % 100 # 0 \/ y % 400 = 0)

DaysIn(m, y) ==
    IF m = 2 THEN (IF IsLeap(y) THEN 29 ELSE 28)
    ELSE IF m \in {4, 6, 9, 11} THEN 30 ELSE 31

DigitsAt(s, i, n) == i + n - 1 <= Len(s) /\ AllDigits(SubSeq(s, i, i + n - 1))

CharAt(s, i, c) == i <= Len(s) /\ s[i] = c

\* The layout's fields: a four-digit year, '-', two-digit month, '-', a
\* two-digit day, 'T', an hour of one or two digits (getnum with fixed =
\* false), ':', two-digit minute, ':', two-digit second, then optionally a
\* fractional second ('.' or ',' and digits) that Parse accepts although the
\* layout has none; anything left over is "extra text".  The result is the
\* Unix time of that instant in UTC.
TimeError == [err |-> TRUE, unix |-> 0]

parseTime(s) ==
    IF ~(DigitsAt(s, 1, 4) /\ CharAt(s, 5, "-") /\ DigitsAt(s, 6, 2)
         /\ CharAt(s, 8, "-") /\ DigitsAt(s, 9, 2) /\ CharAt(s, 11, "T")
         /\ DigitsAt(s, 12, 1))
    THEN TimeError
    ELSE
    LET year  == Atoi(SubSeq(s, 1, 4))
        month == Atoi(SubSeq(s, 6, 7))
        day   == Atoi(SubSeq(s, 9, 10))
        hlen  == IF DigitsAt(s, 12, 2) THEN 2 ELSE 1
        hour  == Atoi(SubSeq(s, 12, 11 + hlen))
        p     == 12 + hlen
    IN  IF ~(CharAt(s, p, ":") /\ DigitsAt(s, p + 1, 2) /\ CharAt(s, p + 3, ":")
             /\ DigitsAt(s, p + 4, 2))
        THEN TimeError
        ELSE
        LET min  == Atoi(SubSeq(s, p + 1, p + 2))
            sec  == Atoi(SubSeq(s, p + 4, p + 5))
            q    == p + 6
            frac == q + 1 <= Len(s) /\ s[q] \in {".", ","} /\ s[q + 1] \in Digits
            rest == IF frac THEN SkipRun(s, q + 1, Digits) ELSE q
        IN  IF \/ month < 1 \/ month > 12
               \/ hour >= 24 \/ min >= 60 \/ sec >= 60
               \/ rest <= Len(s)
               \/ day < 1 \/ day > DaysIn(month, year)
            THEN TimeError
            ELSE [err |-> FALSE,
                  unix |-> DaysFromCivil(year, month, day) * 86400
                           + hour * 3600 + min * 60 + sec]

----------------------------------------------------------------------------
(* decoded JSON values: Go's `any` as produced by encoding/json *)

Nil == [t |-> "nil", v |-> <<>>]

Str(s) == [t |-> "string", v |-> s]

Num(d) == [t |-> "float64", v |-> d]

Bool(b) == [t |-> "bool", v |-> b]

Obj(f) == [t |-> "map", v |-> f]

Arr(q) == [t |-> "slice", v |-> q]

\* m[k] on a Go map: the value, or nil when the key is missing
Index(m, k) == IF k \in DOMAIN m THEN m[k] ELSE Nil

\* the comma-ok forms of the type assertions x.(T)
IsMap(x) == x.t = "map"

IsSlice(x) == x.t = "slice"

IsString(x) == x.t = "string"

IsFloat(x) == x.t = "float64"

IsBool(x) == x.t = "bool"

----------------------------------------------------------------------------
(* the collector's metric descriptors *)

\* the typedDesc fields of the Collector that NewCollector builds
NewCollector ==
    [
      up |->
          [name |-> "mbg_ltos_up",
           labels |-> <<"host", "target">>,
           valueType |-> "gauge"],
      buildInfo |->
          [name |-> "mbg_ltos_build_info",
           labels |-> <<"host", "api_version", "firmware_version">>,
           valueType |-> "gauge"],
      systemInfo |->
          [name |-> "mbg_ltos_system_info",
           labels |-> <<"host", "model", "serial_number">>,
           valueType |-> "gauge"],
      systemUptimeSeconds |->
          [name |-> "mbg_ltos_system_uptime_seconds",
           labels |-> <<"host">>,
           valueType |-> "counter"],
      systemCPUInfo |->
          [name |-> "mbg_ltos_system_cpu_info",
           labels |-> <<"host", "model", "serial_number">>,
           valueType |-> "gauge"],
      systemCPULoadAvg |->
          [name |-> "mbg_ltos_system_cpu_load_avg",
           labels |-> <<"host", "period">>,
           valueType |-> "gauge"],
      systemMemoryBytes |->
          [name |-> "mbg_ltos_system_memory_bytes",
           labels |-> <<"host">>,
           valueType |-> "gauge"],
      systemMemoryFreeBytes |->
          [name |-> "mbg_ltos_system_memory_free_bytes",
           labels |-> <<"host">>,
           valueType |-> "gauge"],
      event |->
          [name |-> "mbg_ltos_event",
           labels |-> <<"host", "type", "event">>,
           valueType |-> "counter"],
      storageCapacity |->
          [name |-> "mbg_ltos_storage_capacity_bytes",
           labels |-> <<"host", "mount">>,
           valueType |-> "gauge"],
      storageUsed |->
          [name |-> "mbg_ltos_storage_used_bytes",
           labels |-> <<"host", "mount">>,
           valueType |-> "gauge"],
      receiverInfo |->
          [name |-> "mbg_ltos_receiver_info",
           labels |-> <<"host", "slot_id", "model", "serial_number", "software_revision", "oscillator_type">>,
           valueType |-> "gauge"],
      rcvGNSSSatInView |->
          [name |-> "mbg_ltos_receiver_gnss_satellites_in_view",
           labels |-> <<"host", "slot_id">>,
           valueType |-> "gauge"],
      rcvGNSSSatGood |->
          [name |-> "mbg_ltos_receiver_gnss_satellites_good",
           labels |-> <<"host", "slot_id">>,
           valueType |-> "gauge"],
      rcvGNSSLatitude |->
          [name |-> "mbg_ltos_receiver_gnss_latitude_degrees",
           labels |-> <<"host", "slot_id">>,
           valueType |-> "gauge"],
      rcvGNSSLongitude |->
          [name |-> "mbg_ltos_receiver_gnss_longitude_degrees",
           labels |-> <<"host", "slot_id">>,
           valueType |-> "gauge"],
      rcvGNSSAltitude |->
          [name |-> "mbg_ltos_receiver_gnss_altitude_meters",
           labels |-> <<"host", "slot_id">>,
           valueType |-> "gauge"],
      rcvAntConnected |->
          [name |-> "mbg_ltos_receiver_gnss_antenna_connected",
           labels |-> <<"host", "slot_id">>,
           valueType |-> "gauge"],
      rcvAntShortCircuit |->
          [name |-> "mbg_ltos_receiver_gnss_antenna_short_circuit",
           labels |-> <<"host", "slot_id">>,
           valueType |-> "gauge"],
      rcvSynced |->
          [name |-> "mbg_ltos_receiver_synced",
           labels |-> <<"host", "slot_id">>,
           valueType |-> "gauge"],
      rcvTracking |->
          [name |-> "mbg_ltos_receiver_tracking",
           labels |-> <<"host", "slot_id">>,
           valueType |-> "gauge"],
      rcvColdBoot |->
          [name |-> "mbg_ltos_receiver_cold_boot",
           labels |-> <<"host", "slot_id">>,
           valueType |-> "gauge"],
      rcvWarmBoot |->
          [name |-> "mbg_ltos_receiver_warm_boot",
           labels |-> <<"host", "slot_id">>,
           valueType |-> "gauge"]
    ]

c == NewCollector

\* Describe: the descriptors it sends on its channel, in order
Describe ==
    <<c.up, c.buildInfo, c.systemInfo, c.systemUptimeSeconds, c.systemCPULoadAvg,
      c.systemMemoryBytes, c.systemMemoryFreeBytes, c.event, c.storageCapacity,
      c.storageUsed, c.receiverInfo, c.rcvGNSSSatInView, c.rcvGNSSSatGood,
      c.rcvGNSSLatitude, c.rcvGNSSLongitude, c.rcvGNSSAltitude, c.rcvAntConnected,
      c.rcvAntShortCircuit, c.rcvSynced, c.rcvTracking, c.rcvColdBoot,
      c.rcvWarmBoot>>

\* prometheus.MustNewConstMetric(td.desc, td.valueType, value, labelValues...)
MustNewConstMetric(td, value, labelValues) ==
    [desc      |-> td.name,
     valueType |-> td.valueType,
     value     |-> value,
     labels    |-> [n \in {td.labels[i] : i \in 1..Len(td.labels)} |->
                       labelValues[CHOOSE i \in 1..Len(td.labels) : td.labels[i] = n]]]

----------------------------------------------------------------------------
(* the API client *)

NewClient(baseURL, authBasicUser, authBasicPass) ==
    [baseURL       |-> baseURL,
     authBasicUser |-> authBasicUser,
     authBasicPass |-> authBasicPass]

Target(cl) == cl.baseURL

apiStatus == <<"/", "a", "p", "i", "/", "s", "t", "a", "t", "u", "s">>

\* http.NewRequest fails when url.Parse rejects the URL; of the model's URLs
\* that is the one that begins with ':' ("missing protocol scheme")
NewRequestFails(url) == url # <<>> /\ url[1] = ":"

FetchError(reqs) == [err |-> TRUE, data |-> <<>>, reqs |-> reqs]

\* FetchStatus without the check of the status code
FetchStatus_ignoresStatus(cl, dev) ==
    LET url == cl.baseURL \o apiStatus
        req == [method |-> "GET",
                url    |-> url,
                basicAuth |-> IF cl.authBasicUser # <<>> /\ cl.authBasicPass # <<>>
                              THEN <<cl.authBasicUser, cl.authBasicPass>>
                              ELSE <<>>]
    IN  IF NewRequestFails(url) THEN FetchError(<<>>)
        ELSE IF dev.net \in {"refused", "timeout"} THEN FetchError(<<req>>)
        ELSE IF dev.net = "reset" THEN FetchError(<<req>>)
        ELSE IF dev.body.t = "map"
             THEN [err |-> FALSE, data |-> dev.body.v, reqs |-> <<req>>]
        ELSE IF dev.body.t = "nil"
             THEN [err |-> FALSE, data |-> <<>>, reqs |-> <<req>>]
        ELSE FetchError(<<req>>)

\* FetchStatus that sends no request once a fetch has failed
FetchStatus_givesUp(cl, dev) ==
    LET url == cl.baseURL \o apiStatus
        req == [method |-> "GET",
                url    |-> url,
                basicAuth |-> IF cl.authBasicUser # <<>> /\ cl.authBasicPass # <<>>
                              THEN <<cl.authBasicUser, cl.authBasicPass>>
                              ELSE <<>>]
    IN  IF fetched # [called |-> FALSE] /\ fetched.err THEN FetchError(<<>>)
        ELSE IF NewRequestFails(url) THEN FetchError(<<>>)
        ELSE IF dev.net \in {"refused", "timeout"} THEN FetchError(<<req>>)
        ELSE IF dev.code # 200 THEN FetchError(<<req>>)
        ELSE IF dev.net = "reset" THEN FetchError(<<req>>)
        ELSE IF dev.body.t = "map"
             THEN [err |-> FALSE, data |-> dev.body.v, reqs |-> <<req>>]
        ELSE IF dev.body.t = "nil"
             THEN [err |-> FALSE, data |-> <<>>, reqs |-> <<req>>]
        ELSE FetchError(<<req>>)

\* FetchStatus that takes a document without keys for a failure
FetchStatus_rejectsEmpty(cl, dev) ==
    LET url == cl.baseURL \o apiStatus
        req == [method |-> "GET",
                url    |-> url,
                basicAuth |-> IF cl.authBasicUser # <<>> /\ cl.authBasicPass # <<>>
                              THEN <<cl.authBasicUser, cl.authBasicPass>>
                              ELSE <<>>]
    IN  IF NewRequestFails(url) THEN FetchError(<<>>)
        ELSE IF dev.net \in {"refused", "timeout"} THEN FetchError(<<req>>)
        ELSE IF dev.code # 200 THEN FetchError(<<req>>)
        ELSE IF dev.net = "reset" THEN FetchError(<<req>>)
        ELSE IF dev.body.t = "map" /\ DOMAIN dev.body.v # {}
             THEN [err |-> FALSE, data |-> dev.body.v, reqs |-> <<req>>]
        ELSE FetchError(<<req>>)

\* FetchStatus that authenticates as soon as a user name is configured
FetchStatus_authWithUserOnly(cl, dev) ==
    LET url == cl.baseURL \o apiStatus
        req == [method |-> "GET",
                url    |-> url,
                basicAuth |-> IF cl.authBasicUser # <<>>
                              THEN <<cl.authBasicUser, cl.authBasicPass>>
                              ELSE <<>>]
    IN  IF NewRequestFails(url) THEN FetchError(<<>>)
        ELSE IF dev.net \in {"refused", "timeout"} THEN FetchError(<<req>>)
        ELSE IF dev.code # 200 THEN FetchError(<<req>>)
        ELSE IF dev.net = "reset" THEN FetchError(<<req>>)
        ELSE IF dev.body.t = "map"
             THEN [err |-> FALSE, data |-> dev.body.v, reqs |-> <<req>>]
        ELSE IF dev.body.t = "nil"
             THEN [err |-> FALSE, data |-> <<>>, reqs |-> <<req>>]
        ELSE FetchError(<<req>>)

\* json.Unmarshal(body, &data) with data a map[string]any: a JSON object
\* becomes the map, JSON null leaves the nil map (which reads as empty),
\* any other JSON value and any malformed text is an error
FetchStatus(cl, dev) ==
    LET url == cl.baseURL \o apiStatus
        req == [method |-> "GET",
                url    |-> url,
                basicAuth |-> IF cl.authBasicUser # <<>> /\ cl.authBasicPass # <<>>
                              THEN <<cl.authBasicUser, cl.authBasicPass>>
                              ELSE <<>>]
    IN  IF NewRequestFails(url) THEN FetchError(<<>>)
        ELSE IF dev.net \in {"refused", "timeout"} THEN FetchError(<<req>>)
        ELSE IF dev.code # 200 THEN FetchError(<<req>>)
        ELSE IF dev.net = "reset" THEN FetchError(<<req>>)
        ELSE IF dev.body.t = "map"
             THEN [err |-> FALSE, data |-> dev.body.v, reqs |-> <<req>>]
        ELSE IF dev.body.t = "nil"
             THEN [err |-> FALSE, data |-> <<>>, reqs |-> <<req>>]
        ELSE FetchError(<<req>>)

HealthError(reqs) == [called |-> TRUE, healthy |-> FALSE, err |-> TRUE, reqs |-> reqs]

\* CheckHealth that takes an unreadable body for a failure
CheckHealth_readsBody(cl, dev) ==
    LET url == cl.baseURL \o apiStatus
        req == [method |-> "GET",
                url    |-> url,
                basicAuth |-> IF cl.authBasicUser # <<>> /\ cl.authBasicPass # <<>>
                              THEN <<cl.authBasicUser, cl.authBasicPass>>
                              ELSE <<>>]
    IN  IF NewRequestFails(url) THEN HealthError(<<>>)
        ELSE IF dev.net \in {"refused", "timeout"} THEN HealthError(<<req>>)
        ELSE IF dev.code # 200 THEN HealthError(<<req>>)
        ELSE IF dev.net = "reset" \/ dev.body.t \notin {"map", "nil"}
             THEN HealthError(<<req>>)
        ELSE [called |-> TRUE, healthy |-> TRUE, err |-> FALSE, reqs |-> <<req>>]

\* CheckHealth: the request is built and sent as FetchStatus does; the error
\* of reading the body is dropped (_, _ = io.ReadAll) and the body is never
\* decoded, so past the check of the status code nothing fails
CheckHealth(cl, dev) ==
    LET url == cl.baseURL \o apiStatus
        req == [method |-> "GET",
                url    |-> url,
                basicAuth |-> IF cl.authBasicUser # <<>> /\ cl.authBasicPass # <<>>
                              THEN <<cl.authBasicUser, cl.authBasicPass>>
                              ELSE <<>>]
    IN  IF NewRequestFails(url) THEN HealthError(<<>>)
        ELSE IF dev.net \in {"refused", "timeout"} THEN HealthError(<<req>>)
        ELSE IF dev.code # 200 THEN HealthError(<<req>>)
        ELSE [called |-> TRUE, healthy |-> TRUE, err |-> FALSE, reqs |-> <<req>>]

----------------------------------------------------------------------------
(* Collect *)

unknown == <<"u", "n", "k", "n", "o", "w", "n">>

never == <<"n", "e", "v", "e", "r">>

cpu == <<"c", "p", "u">>

clk == <<"c", "l", "k">>

\* The progress of one Collect call: the metrics sent so far and whether the
\* call is still running, has returned, or has panicked on a failed
\* single-value type assertion.
Send(acc, m) == [acc EXCEPT !.out = Append(@, m)]

Panic(acc) == [acc EXCEPT !.st = "panicked"]

\* Op applied to the value of x, which is computed once
Bind(x, Op(_)) == CHOOSE r \in {Op(v) : v \in {x}} : TRUE

\* the next statement Op runs only if the call has neither returned nor panicked
Then(acc, Op(_)) == Bind(acc, LAMBDA a : IF a.st = "running" THEN Op(a) ELSE a)

BoolValue(b) == IF b THEN One ELSE Zero

\* Identity resolution: every failed check is an early return from Collect.
NoIdentity == [ok |-> FALSE]

ResolveIdentity(statusData) ==
    IF "system-information" \notin DOMAIN statusData THEN NoIdentity
    ELSE IF ~IsMap(statusData["system-information"]) THEN NoIdentity
    ELSE IF "data" \notin DOMAIN statusData THEN NoIdentity
    ELSE IF ~IsMap(statusData["data"]) THEN NoIdentity
    ELSE
    LET systemInfo == statusData["system-information"].v
        data       == statusData["data"].v
    IN  IF "rest-api" \notin DOMAIN data THEN NoIdentity
        ELSE IF ~IsMap(data["rest-api"]) THEN NoIdentity
        ELSE
        LET restAPI == data["rest-api"].v
        IN  IF ~IsString(Index(restAPI, "api-version")) THEN NoIdentity
            ELSE IF ~IsString(Index(systemInfo, "version")) THEN NoIdentity
            ELSE IF ~IsString(Index(systemInfo, "model")) THEN NoIdentity
            ELSE IF ~IsString(Index(systemInfo, "serial-number")) THEN NoIdentity
            ELSE IF ~IsString(Index(systemInfo, "hostname")) THEN NoIdentity
            ELSE [ok              |-> TRUE,
                  data            |-> data,
                  apiVersion      |-> restAPI["api-version"].v,
                  firmwareVersion |-> systemInfo["version"].v,
                  model           |-> systemInfo["model"].v,
                  serial          |-> systemInfo["serial-number"].v,
                  host            |-> systemInfo["hostname"].v]

SendBuildInfo(acc, id) ==
    Send(acc, MustNewConstMetric(c.buildInfo, One,
                  <<id.host, id.apiVersion, id.firmwareVersion>>))

\* SendSystemInfo with the hostname sent as the model as well
SendSystemInfo_hostAsModel(acc, id) ==
    Send(acc, MustNewConstMetric(c.systemInfo, One, <<id.host, id.host, id.serial>>))

SendSystemInfo(acc, id) ==
    Send(acc, MustNewConstMetric(c.systemInfo, One, <<id.host, id.model, id.serial>>))

\* SendUptime labelled with the default host instead of the resolved one
SendUptime_defaultHost(acc, system, host) ==
    IF IsFloat(Index(system, "uptime"))
    THEN Send(acc, MustNewConstMetric(c.systemUptimeSeconds, system["uptime"].v, <<unknown>>))
    ELSE acc

SendUptime(acc, system, host) ==
    IF IsFloat(Index(system, "uptime"))
    THEN Send(acc, MustNewConstMetric(c.systemUptimeSeconds, system["uptime"].v, <<host>>))
    ELSE acc

\* SendCPULoad that reports zeros for a cpuload string that does not parse
SendCPULoad_zeroOnError(acc, system, host) ==
    IF ~IsString(Index(system, "cpuload")) THEN acc
    ELSE Bind(parseCPULoad(system["cpuload"].v), LAMBDA r :
             Send(Send(Send(acc,
                    MustNewConstMetric(c.systemCPULoadAvg, r.load1, <<host, <<"1">>>>)),
                    MustNewConstMetric(c.systemCPULoadAvg, r.load5, <<host, <<"5">>>>)),
                    MustNewConstMetric(c.systemCPULoadAvg, r.load15, <<host, <<"1", "5">>>>)))

SendCPULoad(acc, system, host) ==
    IF ~IsString(Index(system, "cpuload")) THEN acc
    ELSE Bind(parseCPULoad(system["cpuload"].v), LAMBDA r :
             IF r.err THEN acc
             ELSE Send(Send(Send(acc,
                    MustNewConstMetric(c.systemCPULoadAvg, r.load1, <<host, <<"1">>>>)),
                    MustNewConstMetric(c.systemCPULoadAvg, r.load5, <<host, <<"5">>>>)),
                    MustNewConstMetric(c.systemCPULoadAvg, r.load15, <<host, <<"1", "5">>>>)))

\* SendMemory that reports zeros for a memory string that does not parse
SendMemory_zeroOnError(acc, system, host) ==
    IF ~IsString(Index(system, "memory")) THEN acc
    ELSE Bind(parseMemory(system["memory"].v), LAMBDA r :
             Send(Send(acc,
                    MustNewConstMetric(c.systemMemoryBytes, r.totalBytes, <<host>>)),
                    MustNewConstMetric(c.systemMemoryFreeBytes, r.freeBytes, <<host>>)))

SendMemory(acc, system, host) ==
    IF ~IsString(Index(system, "memory")) THEN acc
    ELSE Bind(parseMemory(system["memory"].v), LAMBDA r :
             IF r.err THEN acc
             ELSE Send(Send(acc,
                    MustNewConstMetric(c.systemMemoryBytes, r.totalBytes, <<host>>)),
                    MustNewConstMetric(c.systemMemoryFreeBytes, r.freeBytes, <<host>>)))

\* EventStep that gives up the scrape at a timestamp it cannot parse
EventStep_abortsOnError(acc, evt, host) ==
    IF ~IsMap(evt) THEN Panic(acc)
    ELSE IF ~IsString(Index(evt.v, "type")) THEN Panic(acc)
    ELSE IF ~IsString(Index(evt.v, "object-id")) THEN Panic(acc)
    ELSE IF ~IsString(Index(evt.v, "last-triggered")) THEN Panic(acc)
    ELSE
    LET eventType     == evt.v["type"].v
        eventName     == evt.v["object-id"].v
        lastTriggered == evt.v["last-triggered"].v
    IN  IF lastTriggered = never THEN acc
        ELSE Bind(parseTime(lastTriggered), LAMBDA parsedTime :
                 IF parsedTime.err THEN Panic(acc)
                 ELSE Send(acc, MustNewConstMetric(c.event, F(parsedTime.unix),
                                                   <<host, eventType, eventName>>)))

\* one iteration of the loop over notification.events
EventStep(acc, evt, host) ==
    IF ~IsMap(evt) THEN Panic(acc)
    ELSE IF ~IsString(Index(evt.v, "type")) THEN Panic(acc)
    ELSE IF ~IsString(Index(evt.v, "object-id")) THEN Panic(acc)
    ELSE IF ~IsString(Index(evt.v, "last-triggered")) THEN Panic(acc)
    ELSE
    LET eventType     == evt.v["type"].v
        eventName     == evt.v["object-id"].v
        lastTriggered == evt.v["last-triggered"].v
    IN  IF lastTriggered = never THEN acc
        ELSE Bind(parseTime(lastTriggered), LAMBDA parsedTime :
                 IF parsedTime.err THEN acc
                 ELSE Send(acc, MustNewConstMetric(c.event, F(parsedTime.unix),
                                                   <<host, eventType, eventName>>)))

RECURSIVE EventLoop(_, _, _)
EventLoop(acc, events, host) ==
    IF events = <<>> THEN acc
    ELSE EventLoop(Then(acc, LAMBDA a : EventStep(a, Head(events), host)),
                   Tail(events), host)

SendEvents(acc, data, host) ==
    IF ~IsMap(Index(data, "notification")) THEN acc
    ELSE IF ~IsSlice(Index(data["notification"].v, "events")) THEN acc
    ELSE EventLoop(acc, data["notification"].v["events"].v, host)

\* StorageStep that reads `used` only of an entry whose `size` is a number
StorageStep_nested(acc, rawStorageEntry, host) ==
    IF ~IsMap(rawStorageEntry) THEN acc
    ELSE IF ~IsString(Index(rawStorageEntry.v, "mountpoint")) THEN acc
    ELSE
    LET storageEntry == rawStorageEntry.v
        mountpoint   == storageEntry["mountpoint"].v
        a1 == IF IsFloat(Index(storageEntry, "size"))
              THEN Send(acc, MustNewConstMetric(c.storageCapacity,
                                 storageEntry["size"].v, <<host, mountpoint>>))
              ELSE acc
    IN  IF IsFloat(Index(storageEntry, "size")) /\ IsFloat(Index(storageEntry, "used"))
        THEN Send(a1, MustNewConstMetric(c.storageUsed,
                          storageEntry["used"].v, <<host, mountpoint>>))
        ELSE a1

\* one iteration of the loop over system.storage
StorageStep(acc, rawStorageEntry, host) ==
    IF ~IsMap(rawStorageEntry) THEN acc
    ELSE IF ~IsString(Index(rawStorageEntry.v, "mountpoint")) THEN acc
    ELSE
    LET storageEntry == rawStorageEntry.v
        mountpoint   == storageEntry["mountpoint"].v
        a1 == IF IsFloat(Index(storageEntry, "size"))
              THEN Send(acc, MustNewConstMetric(c.storageCapacity,
                                 storageEntry["size"].v, <<host, mountpoint>>))
              ELSE acc
    IN  IF IsFloat(Index(storageEntry, "used"))
        THEN Send(a1, MustNewConstMetric(c.storageUsed,
                          storageEntry["used"].v, <<host, mountpoint>>))
        ELSE a1

RECURSIVE StorageLoop(_, _, _)
StorageLoop(acc, storageData, host) ==
    IF storageData = <<>> THEN acc
    ELSE StorageLoop(Then(acc, LAMBDA a : StorageStep(a, Head(storageData), host)),
                     Tail(storageData), host)

SendStorage(acc, system, host) ==
    IF ~IsSlice(Index(system, "storage")) THEN acc
    ELSE StorageLoop(acc, system["storage"].v, host)

\* slot-type "cpu": the assertion on "info" is single-valued (the `ok` tested
\* beside it is the one of the "module" check), as are those on its fields
SendCPUSlot(acc, slot, host) ==
    IF ~IsMap(Index(slot, "module")) THEN acc
    ELSE IF ~IsMap(Index(slot["module"].v, "info")) THEN Panic(acc)
    ELSE
    LET cpuInfoData == slot["module"].v["info"].v
    IN  IF ~IsString(Index(cpuInfoData, "model")) THEN Panic(acc)
        ELSE IF ~IsString(Index(cpuInfoData, "serial-number")) THEN Panic(acc)
        ELSE Send(acc, MustNewConstMetric(c.systemCPUInfo, One,
                          <<host, cpuInfoData["model"].v, cpuInfoData["serial-number"].v>>))

SendReceiverInfo(acc, moduleData, slotID, host) ==
    IF ~IsMap(Index(moduleData, "info")) THEN acc
    ELSE
    LET moduleInfoData == moduleData["info"].v
    IN  IF ~IsString(Index(moduleInfoData, "model")) THEN Panic(acc)
        ELSE IF ~IsString(Index(moduleInfoData, "serial-number")) THEN Panic(acc)
        ELSE IF ~IsString(Index(moduleInfoData, "software-revision")) THEN Panic(acc)
        ELSE IF /\ IsMap(Index(moduleData, "sync-status"))
                /\ ~IsString(Index(moduleData["sync-status"].v, "osc-type"))
             THEN Panic(acc)
        ELSE
        LET oscillatorType ==
                IF IsMap(Index(moduleData, "sync-status"))
                THEN moduleData["sync-status"].v["osc-type"].v
                ELSE unknown
        IN  Send(acc, MustNewConstMetric(c.receiverInfo, One,
                          <<host, slotID, moduleInfoData["model"].v,
                            moduleInfoData["serial-number"].v,
                            moduleInfoData["software-revision"].v, oscillatorType>>))

SendSatellites(acc, moduleData, slotID, host) ==
    IF ~IsMap(Index(moduleData, "satellites")) THEN acc
    ELSE
    LET satellitesData == moduleData["satellites"].v
    IN  IF \E k \in {"satellites-in-view", "good-satellites", "latitude",
                     "longitude", "altitude"} : ~IsFloat(Index(satellitesData, k))
        THEN Panic(acc)
        ELSE Send(Send(Send(Send(Send(acc,
               MustNewConstMetric(c.rcvGNSSSatInView,
                   satellitesData["satellites-in-view"].v, <<host, slotID>>)),
               MustNewConstMetric(c.rcvGNSSSatGood,
                   satellitesData["good-satellites"].v, <<host, slotID>>)),
               MustNewConstMetric(c.rcvGNSSLatitude,
                   satellitesData["latitude"].v, <<host, slotID>>)),
               MustNewConstMetric(c.rcvGNSSLongitude,
                   satellitesData["longitude"].v, <<host, slotID>>)),
               MustNewConstMetric(c.rcvGNSSAltitude,
                   satellitesData["altitude"].v, <<host, slotID>>))

\* one flag of a GRC block: the assertion .(bool) panics, else the metric is sent
SendFlag(acc, block, key, td, slotID, host) ==
    IF ~IsBool(Index(block, key)) THEN Panic(acc)
    ELSE Send(acc, MustNewConstMetric(td, BoolValue(block[key].v), <<host, slotID>>))

SendAntenna(acc, grcData, slotID, host) ==
    IF ~IsMap(Index(grcData, "antenna")) THEN acc
    ELSE
    LET grcAntData == grcData["antenna"].v
        a1 == SendFlag(acc, grcAntData, "connected", c.rcvAntConnected, slotID, host)
    IN  Then(a1, LAMBDA a : SendFlag(a, grcAntData, "short-circuit",
                                     c.rcvAntShortCircuit, slotID, host))

SendReceiver(acc, grcData, slotID, host) ==
    IF ~IsMap(Index(grcData, "receiver")) THEN acc
    ELSE
    LET grcRcvData == grcData["receiver"].v
        a1 == SendFlag(acc, grcRcvData, "synchronized", c.rcvSynced, slotID, host)
        a2 == Then(a1, LAMBDA a : SendFlag(a, grcRcvData, "tracking",
                                           c.rcvTracking, slotID, host))
        a3 == Then(a2, LAMBDA a : SendFlag(a, grcRcvData, "warm-boot",
                                           c.rcvWarmBoot, slotID, host))
    IN  Then(a3, LAMBDA a : SendFlag(a, grcRcvData, "cold-boot",
                                     c.rcvColdBoot, slotID, host))

SendGRC(acc, moduleData, slotID, host) ==
    IF ~IsMap(Index(moduleData, "grc")) THEN acc
    ELSE
    LET grcData == moduleData["grc"].v
        a1 == SendAntenna(acc, grcData, slotID, host)
    IN  Then(a1, LAMBDA a : SendReceiver(a, grcData, slotID, host))

\* SendClkSlot that reads the satellites and GRC blocks only inside the
\* check of the info block
SendClkSlot_nested(acc, slot, slotID, host) ==
    IF ~IsMap(Index(slot, "module")) THEN acc
    ELSE IF ~IsMap(Index(slot["module"].v, "info")) THEN acc
    ELSE
    LET moduleData == slot["module"].v
        a1 == SendReceiverInfo(acc, moduleData, slotID, host)
        a2 == Then(a1, LAMBDA a : SendSatellites(a, moduleData, slotID, host))
    IN  Then(a2, LAMBDA a : SendGRC(a, moduleData, slotID, host))

SendClkSlot(acc, slot, slotID, host) ==
    IF ~IsMap(Index(slot, "module")) THEN acc
    ELSE
    LET moduleData == slot["module"].v
        a1 == SendReceiverInfo(acc, moduleData, slotID, host)
        a2 == Then(a1, LAMBDA a : SendSatellites(a, moduleData, slotID, host))
    IN  Then(a2, LAMBDA a : SendGRC(a, moduleData, slotID, host))

\* one iteration of the loop over chassis0.slots
SlotStep(acc, slotRaw, host) ==
    IF ~IsMap(slotRaw) THEN Panic(acc)
    ELSE IF ~IsString(Index(slotRaw.v, "slot-type")) THEN Panic(acc)
    ELSE IF ~IsString(Index(slotRaw.v, "slot-id")) THEN Panic(acc)
    ELSE
    LET slot     == slotRaw.v
        slotType == slot["slot-type"].v
        slotID   == slot["slot-id"].v
    IN  IF slotType = cpu THEN SendCPUSlot(acc, slot, host)
        ELSE IF slotType = clk THEN SendClkSlot(acc, slot, slotID, host)
        ELSE acc

RECURSIVE SlotLoop(_, _, _)
SlotLoop(acc, slots, host) ==
    IF slots = <<>> THEN acc
    ELSE SlotLoop(Then(acc, LAMBDA a : SlotStep(a, Head(slots), host)),
                  Tail(slots), host)

SendSlots(acc, data, host) ==
    IF ~IsMap(Index(data, "chassis0")) THEN acc
    ELSE IF ~IsSlice(Index(data["chassis0"].v, "slots")) THEN acc
    ELSE SlotLoop(acc, data["chassis0"].v["slots"].v, host)

\* the optional groups, in the order of the code; data["system"] is read
\* with a single-value assertion
Extract(acc, data, host) ==
    IF ~IsMap(Index(data, "system")) THEN Panic(acc)
    ELSE
    LET system == data["system"].v
        a1 == SendUptime(acc, system, host)
        a2 == SendCPULoad(a1, system, host)
        a3 == SendMemory(a2, system, host)
        a4 == SendEvents(a3, data, host)
        a5 == Then(a4, LAMBDA a : SendStorage(a, system, host))
    IN  Then(a5, LAMBDA a : SendSlots(a, data, host))

\* SendUp that reports the device as up whatever upValue is
SendUp_alwaysOne(acc, upValue, host, cl) ==
    [out |-> Append(acc.out, MustNewConstMetric(c.up, One, <<host, Target(cl)>>)),
     st  |-> "returned"]

\* SendUp that labels `up` with the host of the scrape before, kept in a field
SendUp_cachedHost(acc, upValue, host, cl) ==
    [out |-> Append(acc.out, MustNewConstMetric(c.up, upValue,
                 <<IF ch # <<>> THEN ch[Len(ch)].labels.host ELSE host, Target(cl)>>)),
     st  |-> "returned"]

SendUp(acc, upValue, host, cl) ==
    [out |-> Append(acc.out, MustNewConstMetric(c.up, upValue, <<host, Target(cl)>>)),
     st  |-> "returned"]

\* one call of Collect against the device's current answer: the metrics sent,
\* how the call ended, and the requests FetchStatus issued
\* Collect from line 309 on, after FetchStatus has returned f
CollectFetched(f, cl) ==
    LET start == [out |-> <<>>, st |-> "running"]
        Identified(id) ==
            IF ~id.ok THEN [start EXCEPT !.st = "returned"]
            ELSE
            LET a1 == SendBuildInfo(start, id)
                a2 == SendSystemInfo(a1, id)
                a3 == Extract(a2, id.data, id.host)
            IN  Then(a3, LAMBDA a : SendUp(a, One, id.host, cl))
    IN  IF f.err THEN SendUp(start, Zero, unknown, cl)
        ELSE Bind(ResolveIdentity(f.data), Identified)

CollectRun(cl, dev) ==
    Bind(FetchStatus(cl, dev), LAMBDA f :
             Bind(CollectFetched(f, cl), LAMBDA run :
                  [out |-> run.out, st |-> run.st, reqs |-> f.reqs,
                   fetched |-> [err |-> f.err, data |-> f.data]]))

----------------------------------------------------------------------------
(* status documents *)

\* a complete answer of the device, in the shape Collect reads
FullDoc ==
    Obj(("system-information" :> Obj(("version" :> Str(<<"7", ".", "1", "0">>))
         @@ ("serial-number" :> Str(<<"S", "1">>))
         @@ ("hostname" :> Str(<<"n", "t", "p", "1">>))
         @@ ("model" :> Str(<<"M", "6", "0", "0">>))))
     @@ ("data" :> Obj(("rest-api" :> Obj(("api-version" :> Str(<<"2", "0", ".", "0", "5">>))))
         @@ ("system" :> Obj(("uptime" :> Num(Norm(13098825, -2)))
             @@ ("cpuload" :> Str(<<"0", ".", "4", "8", " ", "0", ".", "6", "6", " ", "0", ".", "5", "7", " ", "2", "/", "9", "9", " ", "2", "5", "1", "5", "7">>))
             @@ ("memory" :> Str(<<"2", "2", "8", "4", "2", "8", " ", "k", "B", " ", "t", "o", "t", "a", "l", " ", "m", "e", "m", "o", "r", "y", ",", " ", "1", "6", "1", "7", "3", "2", " ", "k", "B", " ", "f", "r", "e", "e", " ", "(", "7", "0", " ", "%", ")">>))
             @@ ("storage" :> Arr(<<Obj(("mountpoint" :> Str(<<"/">>))
                     @@ ("size" :> Num(F(1000)))
                     @@ ("used" :> Num(F(400)))),
                Obj(("mountpoint" :> Str(<<"/", "d">>))
                     @@ ("size" :> Num(F(2000)))
                     @@ ("used" :> Num(F(0))))>>))))
         @@ ("notification" :> Obj(("events" :> Arr(<<Obj(("type" :> Str(<<"s", "y", "n", "c">>))
                     @@ ("object-id" :> Str(<<"e", "1">>))
                     @@ ("last-triggered" :> Str(<<"n", "e", "v", "e", "r">>))),
                Obj(("type" :> Str(<<"n", "t", "p">>))
                     @@ ("object-id" :> Str(<<"e", "2">>))
                     @@ ("last-triggered" :> Str(<<"2", "0", "2", "6", "-", "0", "2", "-", "1", "1", "T", "2", "2", ":", "0", "5", ":", "0", "7">>)))>>))))
         @@ ("chassis0" :> Obj(("slots" :> Arr(<<Obj(("slot-type" :> Str(<<"c", "p", "u">>))
                     @@ ("slot-id" :> Str(<<"c", "p", "u">>))
                     @@ ("module" :> Obj(("info" :> Obj(("model" :> Str(<<"C", "1">>))
                             @@ ("serial-number" :> Str(<<"S", "3">>))))))),
                Obj(("slot-type" :> Str(<<"c", "l", "k">>))
                     @@ ("slot-id" :> Str(<<"c", "l", "k", "1">>))
                     @@ ("module" :> Obj(("info" :> Obj(("model" :> Str(<<"G", "P", "S">>))
                             @@ ("serial-number" :> Str(<<"S", "2">>))
                             @@ ("software-revision" :> Str(<<"1", ".", "2">>))))
                         @@ ("sync-status" :> Obj(("osc-type" :> Str(<<"O", "C", "X", "O">>))))
                         @@ ("satellites" :> Obj(("satellites-in-view" :> Num(F(9)))
                             @@ ("good-satellites" :> Num(F(8)))
                             @@ ("latitude" :> Num(Norm(4725, -2)))
                             @@ ("longitude" :> Num(Norm(85, -1)))
                             @@ ("altitude" :> Num(F(430)))))
                         @@ ("grc" :> Obj(("antenna" :> Obj(("connected" :> Bool(TRUE))
                                 @@ ("short-circuit" :> Bool(FALSE))))
                             @@ ("receiver" :> Obj(("synchronized" :> Bool(TRUE))
                                 @@ ("tracking" :> Bool(TRUE))
                                 @@ ("warm-boot" :> Bool(FALSE))
                                 @@ ("cold-boot" :> Bool(FALSE)))))))))>>)))))))

BuildInfoTestDoc ==
    Obj(("system-information" :> Obj(("version" :> Str(<<"7", ".", "1", "0">>))
         @@ ("serial-number" :> Str(<<"S", "1">>))
         @@ ("hostname" :> Str(<<"n", "t", "p", "1">>))))
     @@ ("data" :> Obj(("system" :> Obj(("uptime" :> Num(Norm(13098825, -2)))
             @@ ("cpuload" :> Str(<<"0", ".", "4", "8", " ", "0", ".", "6", "6", " ", "0", ".", "5", "7", " ", "2", "/", "9", "9", " ", "2", "5", "1", "5", "7">>))
             @@ ("memory" :> Str(<<"2", "2", "8", "4", "2", "8", " ", "k", "B", " ", "t", "o", "t", "a", "l", " ", "m", "e", "m", "o", "r", "y", ",", " ", "1", "6", "1", "7", "3", "2", " ", "k", "B", " ", "f", "r", "e", "e", " ", "(", "7", "0", " ", "%", ")">>)))))))

\* the positions inside a JSON value: map keys, and list indices as digits
IndexKey == <<"1", "2", "3", "4", "5", "6", "7", "8", "9">>

RECURSIVE Paths(_)
Paths(x) ==
    {<<>>} \cup
    (IF x.t = "map"
     THEN UNION {{<<k>> \o p : p \in Paths(x.v[k])} : k \in DOMAIN x.v}
     ELSE IF x.t = "slice"
     THEN UNION {{<<IndexKey[i]>> \o p : p \in Paths(x.v[i])} : i \in 1..Len(x.v)}
     ELSE {})

\* the value with the value at `path` replaced by y
RECURSIVE Put(_, _, _)
Put(x, path, y) ==
    IF path = <<>> THEN y
    ELSE IF x.t = "map"
    THEN Obj([x.v EXCEPT ![Head(path)] = Put(@, Tail(path), y)])
    ELSE Arr([x.v EXCEPT ![DigitVal(Head(path))] = Put(@, Tail(path), y)])

\* the value with the key or list element at `path` removed
RECURSIVE Drop(_, _)
Drop(x, path) ==
    IF Len(path) > 1
    THEN IF x.t = "map"
         THEN Obj([x.v EXCEPT ![Head(path)] = Drop(@, Tail(path))])
         ELSE Arr([x.v EXCEPT ![DigitVal(Head(path))] = Drop(@, Tail(path))])
    ELSE IF x.t = "map"
    THEN Obj([k \in DOMAIN x.v \ {path[1]} |-> x.v[k]])
    ELSE LET i == DigitVal(path[1])
         IN  Arr(SubSeq(x.v, 1, i - 1) \o SubSeq(x.v, i + 1, Len(x.v)))

\* values put in place of a field: each JSON type, an unparsable string, and
\* strings that report a literal zero
Replacements ==
    {Nil, Bool(TRUE), Num(F(7)), Obj(<<>>), Arr(<<>>), Arr(<<Num(F(7))>>),
     Str(<<"x">>),
     Str(<<"0", " ", "0", " ", "0">>),
     Str(<<"0", " ", "k", "B", " ", "t", "o", "t", "a", "l", ",", " ",
           "0", " ", "k", "B", " ", "f", "r", "e", "e">>)}

\* FullDoc with one field or element removed or replaced
Damaged(doc) ==
    LET ps == Paths(doc) \ {<<>>}
    IN  {Drop(doc, p) : p \in ps} \cup {Put(doc, p, r) : p \in ps, r \in Replacements}

SlotsPath == <<"data", "chassis0", "slots">>

\* a second clock module, without sync-status
ClockSlot2 ==
    Obj(("slot-type" :> Str(<<"c", "l", "k">>))
     @@ ("slot-id" :> Str(<<"c", "l", "k", "2">>))
     @@ ("module" :> Obj(("info" :> Obj(("model" :> Str(<<"G", "N", "S">>))
             @@ ("serial-number" :> Str(<<"S", "4">>))
             @@ ("software-revision" :> Str(<<"2", ".", "0">>))))
         @@ ("satellites" :> Obj(("satellites-in-view" :> Num(F(12)))
             @@ ("good-satellites" :> Num(F(11)))
             @@ ("latitude" :> Num(Norm(4725, -2)))
             @@ ("longitude" :> Num(Norm(85, -1)))
             @@ ("altitude" :> Num(F(431)))))
         @@ ("grc" :> Obj(("antenna" :> Obj(("connected" :> Bool(FALSE))
                 @@ ("short-circuit" :> Bool(TRUE))))
             @@ ("receiver" :> Obj(("synchronized" :> Bool(FALSE))
                 @@ ("tracking" :> Bool(FALSE))
                 @@ ("warm-boot" :> Bool(TRUE))
                 @@ ("cold-boot" :> Bool(TRUE)))))))))

\* FullDoc with the second clock module in a third slot
TwoClockDoc ==
    Put(FullDoc, SlotsPath,
        Arr(Append(FullDoc.v["data"].v["chassis0"].v["slots"].v, ClockSlot2)))

\* the blocks of a clock module that Collect reads one after the other
ClkSubBlocks == {"info", "satellites", "grc"}

\* TwoClockDoc, and TwoClockDoc with one block of one clock module removed
\* or replaced
ClockDocs ==
    LET ps == {SlotsPath \o <<i, "module", b>> : i \in {"2", "3"}, b \in ClkSubBlocks}
    IN  {TwoClockDoc} \cup {Drop(TwoClockDoc, p) : p \in ps}
        \cup {Put(TwoClockDoc, p, r) : p \in ps, r \in Replacements}

\* the document with element i of the list at `path` appended to that list
Repeated(doc, path, i) ==
    LET list == doc.v[path[1]].v[path[2]].v[path[3]].v
    IN  Put(doc, path, Arr(Append(list, list[i])))

\* FullDoc with a second cpu module of the same model and serial number
TwinCPUDoc ==
    LET slots == FullDoc.v["data"].v["chassis0"].v["slots"].v
        twin  == Obj([slots[1].v EXCEPT !["slot-id"] = Str(<<"c", "p", "u", "2">>)])
    IN  Put(FullDoc, SlotsPath, Arr(Append(slots, twin)))

\* FullDoc with the second event, the first storage entry or the clock slot
\* once more in its list, and with the twin cpu module
RepeatDocs ==
    {Repeated(FullDoc, <<"data", "notification", "events">>, 2),
     Repeated(FullDoc, <<"data", "system", "storage">>, 1),
     Repeated(FullDoc, SlotsPath, 2),
     TwinCPUDoc}

Docs ==
    {FullDoc, BuildInfoTestDoc, Obj(<<>>)} \cup Damaged(FullDoc) \cup ClockDocs
    \cup RepeatDocs

\* what a device can answer
Answer(net, code, body) == [net |-> net, code |-> code, body |-> body]

Malformed == [t |-> "malformed", v |-> <<>>]

Devices ==
    {Answer("ok", 200, d) : d \in Docs}
    \cup {Answer("ok", 200, b) : b \in {Nil, Malformed, Arr(<<>>), Str(<<"x">>)}}
    \cup {Answer(n, 200, FullDoc) : n \in {"refused", "timeout", "reset"}}
    \cup {Answer("ok", k, FullDoc) : k \in {204, 401, 404, 500}}

BaseURLs ==
    {<<"h", "t", "t", "p", ":", "/", "/", "a">>,
     <<"h", "t", "t", "p", ":", "/", "/", "b">>,
     <<":", "b">>}

Credentials == {<<>>, <<"u">>}

Clients ==
    {NewClient(u, <<>>, <<>>) : u \in BaseURLs}
    \cup {NewClient(<<"h", "t", "t", "p", ":", "/", "/", "a">>, a, p) :
              a \in Credentials, p \in Credentials}

----------------------------------------------------------------------------
(* the exporter: scrapes of one device *)

NoResult == [called |-> FALSE]

\* the Collect calls that may overlap, and a call that has not begun
Calls == {"a", "b"}

IdleCall == [pc |-> "idle", fetched |-> NoResult, out |-> <<>>]

Init ==
    /\ client \in Clients
    /\ device \in Devices
    /\ ch = <<>>
    /\ status = "idle"
    /\ requests = <<>>
    /\ fetched = NoResult
    /\ calls = [id \in Calls |-> IdleCall]
    /\ firstScrape = NoResult
    /\ cpuloadStr = <<>>
    /\ cpuResult = NoResult
    /\ memoryStr = <<>>
    /\ memResult = NoResult
    /\ health = NoResult

\* One scrape.  A panic in Collect is not recovered anywhere in the exporter,
\* so it ends the process: no scrape follows it.
Collect ==
    /\ status # "panicked"
    /\ \E r \in {CollectRun(client, device)} :
           /\ ch' = r.out
           /\ status' = r.st
           /\ requests' = r.reqs
           /\ fetched' = r.fetched
           /\ firstScrape' =
                 IF firstScrape = NoResult
                 THEN [fetched |-> r.fetched, ch |-> r.out, status |-> r.st,
                       differed |-> FALSE]
                 ELSE [firstScrape EXCEPT
                          !.differed = @ \/ r.fetched # firstScrape.fetched]
    /\ UNCHANGED <<client, device, calls, cpuloadStr, cpuResult, memoryStr, memResult,
                   health>>

Next == Collect

Spec == Init /\ [][Next]_vars

----------------------------------------------------------------------------
(* the exporter over several scrapes, while the device's answer changes *)

\* FullDoc under another hostname
OtherHostDoc ==
    Put(FullDoc, <<"system-information", "hostname">>, Str(<<"n", "t", "p", "2">>))

\* answers of every kind: complete documents of two hosts, a document without
\* identity, one on which Collect panics, an error status and a timeout
FewDevices ==
    {Answer("ok", 200, d) : d \in {FullDoc, OtherHostDoc, TwoClockDoc, BuildInfoTestDoc,
                                     Drop(FullDoc, <<"data", "system">>)}}
    \cup {Answer("ok", 500, FullDoc), Answer("timeout", 200, FullDoc)}

InitScrapes ==
    /\ client \in Clients
    /\ device \in FewDevices
    /\ ch = <<>>
    /\ status = "idle"
    /\ requests = <<>>
    /\ fetched = NoResult
    /\ calls = [id \in Calls |-> IdleCall]
    /\ firstScrape = NoResult
    /\ cpuloadStr = <<>>
    /\ cpuResult = NoResult
    /\ memoryStr = <<>>
    /\ memResult = NoResult
    /\ health = NoResult

\* between two scrapes the device comes to answer something else
DeviceChanges ==
    /\ device' \in FewDevices \ {device}
    /\ UNCHANGED <<client, ch, status, requests, fetched, calls, firstScrape,
                   cpuloadStr, cpuResult, memoryStr, memResult, health>>

NextScrapes == Collect \/ DeviceChanges

SpecScrapes == InitScrapes /\ [][NextScrapes]_vars

----------------------------------------------------------------------------
(* overlapping scrapes: Collect calls that run at once, send by send *)

\* a short document of a host: its identity and its uptime
BriefDoc(host) ==
    Obj(("system-information" :> Obj(("version" :> Str(<<"7", ".", "1", "0">>))
         @@ ("serial-number" :> Str(<<"S", "1">>))
         @@ ("hostname" :> Str(host))
         @@ ("model" :> Str(<<"M", "6", "0", "0">>))))
     @@ ("data" :> Obj(("rest-api" :> Obj(("api-version" :> Str(<<"2", "0">>))))
         @@ ("system" :> Obj(("uptime" :> Num(F(Len(host)))))))))

\* answers of two hosts, one on which Collect panics after the identity
\* metrics, and an error status
BriefDevices ==
    {Answer("ok", 200, BriefDoc(<<"n", "t", "p", "1">>)),
     Answer("ok", 200, BriefDoc(<<"n", "t", "p">>)),
     Answer("ok", 200, Drop(BriefDoc(<<"n", "t", "p", "3">>), <<"data", "system">>)),
     Answer("ok", 503, Nil)}

InitConcurrent ==
    /\ client \in Clients
    /\ device \in BriefDevices
    /\ ch = <<>>
    /\ status = "idle"
    /\ requests = <<>>
    /\ fetched = NoResult
    /\ calls = [id \in Calls |-> IdleCall]
    /\ firstScrape = NoResult
    /\ cpuloadStr = <<>>
    /\ cpuResult = NoResult
    /\ memoryStr = <<>>
    /\ memResult = NoResult
    /\ health = NoResult

\* a panic in one call ends the process, and with it every other call
Running == \A id \in Calls : calls[id].pc # "panicked"

\* lines 306-308 of a call: its FetchStatus call returns into its locals
BeginCollect(id) ==
    /\ Running
    /\ calls[id].pc = "idle"
    /\ \E f \in {FetchStatus(client, device)} :
           calls' = [calls EXCEPT ![id] =
                        [pc |-> "fetched",
                         fetched |-> [err |-> f.err, data |-> f.data],
                         out |-> <<>>]]
    /\ UNCHANGED <<client, device, ch, status, requests, fetched, firstScrape,
                   cpuloadStr, cpuResult, memoryStr, memResult, health>>

\* CallFetched that reads what the other call fetched, as if statusData were
\* kept in a field of the Collector
CallFetched_shared(id) ==
    IF \E j \in Calls \ {id} : calls[j].pc # "idle"
    THEN calls[CHOOSE j \in Calls \ {id} : calls[j].pc # "idle"].fetched
    ELSE calls[id].fetched

\* statusData and err of a call: locals of Collect
CallFetched(id) == calls[id].fetched

\* the next `ch <-` of a call, or its end when nothing is left to send
SendNext(id) ==
    /\ Running
    /\ calls[id].pc = "fetched"
    /\ \E run \in {CollectFetched(CallFetched(id), client)} :
           calls' = [calls EXCEPT ![id] =
                        IF Len(@.out) < Len(run.out)
                        THEN [@ EXCEPT !.out = Append(@, run.out[Len(@) + 1])]
                        ELSE [@ EXCEPT !.pc = run.st]]
    /\ UNCHANGED <<client, device, ch, status, requests, fetched, firstScrape,
                   cpuloadStr, cpuResult, memoryStr, memResult, health>>

\* while calls are under way the device comes to answer something else
DeviceTurns ==
    /\ device' \in BriefDevices \ {device}
    /\ UNCHANGED <<client, ch, status, requests, fetched, calls, firstScrape,
                   cpuloadStr, cpuResult, memoryStr, memResult, health>>

NextConcurrent ==
    \/ \E id \in Calls : BeginCollect(id)
    \/ \E id \in Calls : SendNext(id)
    \/ DeviceTurns

SpecConcurrent == InitConcurrent /\ [][NextConcurrent]_vars

----------------------------------------------------------------------------
(* parseCPULoad on its own *)

CPUChars == {" ", "0", "1", "2", "."}

MaxCPULen == 7

CPUStrings == UNION {[1..n -> CPUChars] : n \in 0..MaxCPULen}

InitCPU ==
    /\ client = NewClient(<<>>, <<>>, <<>>)
    /\ device = Answer("refused", 200, Nil)
    /\ ch = <<>>
    /\ status = "idle"
    /\ requests = <<>>
    /\ fetched = NoResult
    /\ calls = [id \in Calls |-> IdleCall]
    /\ firstScrape = NoResult
    /\ cpuloadStr \in CPUStrings
    /\ cpuResult = NoResult
    /\ memoryStr = <<>>
    /\ memResult = NoResult
    /\ health = NoResult

CallParseCPULoad ==
    /\ cpuResult' = parseCPULoad(cpuloadStr)
    /\ UNCHANGED <<client, device, ch, status, requests, fetched, calls, firstScrape, cpuloadStr, memoryStr, memResult,
                   health>>

SpecCPU == InitCPU /\ [][CallParseCPULoad]_vars

----------------------------------------------------------------------------
(* parseMemory on its own *)

\* The inputs are up to MaxSegments pieces "<digits><gap>kB<gap><word>" put
\* end to end, with the digits or either gap possibly missing.
MemDigits == {<<>>, <<"7">>, <<"1", "2">>}

MemGaps == {<<<<" ">>, <<" ">>>>, <<<<>>, <<" ">>>>, <<<<" ", "\t">>, <<>>>>}

MemWords == {total, free}

MemSegments == {d \o g[1] \o kB \o g[2] \o w : d \in MemDigits, g \in MemGaps, w \in MemWords}

MaxSegments == 3

RECURSIVE MemStringsOf(_)
MemStringsOf(n) ==
    IF n = 0 THEN {<<>>}
    ELSE LET shorter == MemStringsOf(n - 1)
         IN  shorter \cup {s \o g : s \in shorter, g \in MemSegments}

MemStrings == MemStringsOf(MaxSegments)

InitMem ==
    /\ client = NewClient(<<>>, <<>>, <<>>)
    /\ device = Answer("refused", 200, Nil)
    /\ ch = <<>>
    /\ status = "idle"
    /\ requests = <<>>
    /\ fetched = NoResult
    /\ calls = [id \in Calls |-> IdleCall]
    /\ firstScrape = NoResult
    /\ cpuloadStr = <<>>
    /\ cpuResult = NoResult
    /\ memoryStr \in MemStrings
    /\ memResult = NoResult
    /\ health = NoResult

CallParseMemory ==
    /\ memResult' = parseMemory(memoryStr)
    /\ UNCHANGED <<client, device, ch, status, requests, fetched, calls, firstScrape, cpuloadStr, cpuResult, memoryStr,
                   health>>

SpecMem == InitMem /\ [][CallParseMemory]_vars

----------------------------------------------------------------------------
(* properties of parseCPULoad *)

\* the positions at which a whitespace-separated token of s begins
TokenStarts(s) ==
    {i \in 1..Len(s) : ~IsSpace(s[i]) /\ (i = 1 \/ IsSpace(s[i - 1]))}

\* the position at which the token that begins at i ends
TokenEnd(s, i) ==
    CHOOSE j \in i..Len(s) :
        /\ \A x \in i..j : ~IsSpace(s[x])
        /\ (j = Len(s) \/ IsSpace(s[j + 1]))

\* the k-th token of s, for k up to the number of tokens
Token(s, k) ==
    LET i == CHOOSE x \in TokenStarts(s) :
                 Cardinality({y \in TokenStarts(s) : y <= x}) = k
    IN  SubSeq(s, i, TokenEnd(s, i))

\* s cut off right after its third token
UpToThirdToken(s) ==
    LET i == CHOOSE x \in TokenStarts(s) :
                 Cardinality({y \in TokenStarts(s) : y <= x}) = 3
    IN  SubSeq(s, 1, TokenEnd(s, i))

TokenCount(s) == Cardinality(TokenStarts(s))

ThreeNumbers(s) ==
    /\ TokenCount(s) >= 3
    /\ \A k \in 1..3 : ~ParseFloat(Token(s, k)).err

\* C9: parseCPULoad(s) succeeds exactly when s has at least three
\* whitespace-separated tokens of which the first three parse as numbers; it
\* then returns those three values in order; whatever follows the third
\* token does not change the result; in every other case it returns an error.
C9_ParseCPULoad ==
    cpuResult # NoResult =>
        /\ cpuResult.err <=> ~ThreeNumbers(cpuloadStr)
        /\ ThreeNumbers(cpuloadStr) =>
              /\ cpuResult.load1 = ParseFloat(Token(cpuloadStr, 1)).val
              /\ cpuResult.load5 = ParseFloat(Token(cpuloadStr, 2)).val
              /\ cpuResult.load15 = ParseFloat(Token(cpuloadStr, 3)).val
        /\ TokenCount(cpuloadStr) >= 3 =>
              cpuResult = parseCPULoad(UpToThirdToken(cpuloadStr))

\* a successful parse of a string with a fourth token that is no number,
\* and three different values
C9_Witness ==
    /\ cpuResult # NoResult
    /\ ~cpuResult.err
    /\ TokenCount(cpuloadStr) >= 4
    /\ ParseFloat(Token(cpuloadStr, 4)).err
    /\ cpuResult.load1 # cpuResult.load5
    /\ cpuResult.load5 # cpuResult.load15
    /\ cpuResult.load1 # cpuResult.load15

----------------------------------------------------------------------------
(* properties of parseMemory *)

AllIn(s, i, j, class) == \A x \in i..j : s[x] \in class

\* the pairs <<i, j>> such that s[i..j-1] is an integer followed by
\* whitespace, "kB", whitespace and the word
IntegersBefore(s, word) ==
    LET units == {a \in 1..Len(s) :
                     /\ HasPrefixAt(s, a, kB)
                     /\ \E b \in a + 3..Len(s) :
                           AllIn(s, a + 2, b - 1, ReSpace) /\ HasPrefixAt(s, b, word)}
        ends  == {j \in 2..Len(s) :
                     \E a \in units : j < a /\ AllIn(s, j, a - 1, ReSpace)}
    IN  UNION {{<<i, j>> : i \in {x \in 1..j - 1 : AllIn(s, x, j - 1, Digits)}} :
                  j \in ends}

\* the value of the first of the integers occ
FirstInteger(s, occ) ==
    LET o == CHOOSE p \in occ : \A q \in occ : p[1] <= q[1]
    IN  Atoi(SubSeq(s, o[1], o[2] - 1))

C10_WitnessFreeMissing ==
    /\ memResult # NoResult
    /\ memResult.err
    /\ IntegersBefore(memoryStr, total) # {}

----------------------------------------------------------------------------
(* properties of Collect *)

\* the value found by descending the keys of `path`; nil when a key is
\* missing or a value on the way is not a map
RECURSIVE At(_, _)
At(x, path) ==
    IF path = <<>> THEN x
    ELSE IF x.t = "map" /\ Head(path) \in DOMAIN x.v
    THEN At(x.v[Head(path)], Tail(path))
    ELSE Nil

HostnamePath == <<"system-information", "hostname">>

IdentityPaths ==
    {<<"system-information", "version">>,
     <<"system-information", "model">>,
     <<"system-information", "serial-number">>,
     HostnamePath,
     <<"data", "rest-api", "api-version">>}

\* the request could be built, the device answered 200, and the body was a
\* JSON object (or null): FetchStatus returns a document
Delivered ==
    /\ ~NewRequestFails(client.baseURL \o apiStatus)
    /\ device.net = "ok"
    /\ device.code = 200
    /\ device.body.t \in {"map", "nil"}

\* all five identity fields of the document are strings
IdentityResolves == \A p \in IdentityPaths : At(device.body, p).t = "string"

Scraped == status # "idle"

MetricsNamed(name) == {i \in 1..Len(ch) : ch[i].desc = name}

UpMetric(value, host) ==
    [desc      |-> "mbg_ltos_up",
     valueType |-> "gauge",
     value     |-> value,
     labels    |-> [host |-> host, target |-> client.baseURL]]

\* C1: every call of Collect emits exactly one `up` observation, whatever
\* the outcome of the fetch and of the extraction.
C1_ExactlyOneUp ==
    Scraped => Cardinality(MetricsNamed("mbg_ltos_up")) = 1

\* C2: for a fetched document in which an identity field (or a parent of
\* one) is missing or of the wrong type, Collect emits the `up` observation
\* and nothing else.
C2_OnlyUpWithoutIdentity ==
    (Scraped /\ Delivered /\ ~IdentityResolves) =>
        (Len(ch) = 1 /\ ch[1].desc = "mbg_ltos_up")

\* C3: whatever JSON object FetchStatus returns, Collect returns normally:
\* it never panics.
C3_NeverPanics ==
    status # "panicked"

\* C4: a scrape's `up` observation has value 1 if the fetch succeeded and the
\* identity resolved, and value 0 in every other case, the case of a
\* delivered document without identity included.
C4_UpValue ==
    Scraped =>
        LET expected == IF Delivered /\ IdentityResolves THEN One ELSE Zero
        IN  /\ MetricsNamed("mbg_ltos_up") # {}
            /\ \A i \in MetricsNamed("mbg_ltos_up") : ch[i].value = expected

\* C5: whenever FetchStatus returns an error, whatever its kind, Collect
\* emits exactly one observation: `up` with value 0, host "unknown" and the
\* client's base URL as target.
C5_FetchFailure ==
    (Scraped /\ ~Delivered) => ch = <<UpMetric(Zero, unknown)>>

\* a scrape of a device that answers 500
C5_Witness ==
    /\ status = "returned"
    /\ device.code = 500
    /\ Len(ch) = 1
    /\ ch[1].labels.target = <<"h", "t", "t", "p", ":", "/", "/", "b">>

\* the optional field groups: the key of each and the metrics derived from it
Groups == {"uptime", "cpuload", "memory", "storage", "events", "slots"}

GroupKey(g) ==
    CASE g = "uptime"  -> <<"data", "system", "uptime">>
      [] g = "cpuload" -> <<"data", "system", "cpuload">>
      [] g = "memory"  -> <<"data", "system", "memory">>
      [] g = "storage" -> <<"data", "system", "storage">>
      [] g = "events"  -> <<"data", "notification", "events">>
      [] g = "slots"   -> <<"data", "chassis0", "slots">>

GroupMetrics(g) ==
    CASE g = "uptime"  -> {"mbg_ltos_system_uptime_seconds"}
      [] g = "cpuload" -> {"mbg_ltos_system_cpu_load_avg"}
      [] g = "memory"  -> {"mbg_ltos_system_memory_bytes", "mbg_ltos_system_memory_free_bytes"}
      [] g = "storage" -> {"mbg_ltos_storage_capacity_bytes", "mbg_ltos_storage_used_bytes"}
      [] g = "events"  -> {"mbg_ltos_event"}
      [] g = "slots"   -> {c[f].name : f \in {"systemCPUInfo", "receiverInfo",
                              "rcvGNSSSatInView", "rcvGNSSSatGood", "rcvGNSSLatitude",
                              "rcvGNSSLongitude", "rcvGNSSAltitude", "rcvAntConnected",
                              "rcvAntShortCircuit", "rcvSynced", "rcvTracking",
                              "rcvColdBoot", "rcvWarmBoot"}}

IsPrefix(p, q) == Len(p) <= Len(q) /\ SubSeq(q, 1, Len(p)) = p

\* FullDoc with the key of group g, or something below it, removed or replaced
DamagedIn(g) ==
    LET ps == {p \in Paths(FullDoc) : IsPrefix(GroupKey(g), p)}
    IN  {Drop(FullDoc, p) : p \in ps} \cup {Put(FullDoc, p, r) : p \in ps, r \in Replacements}

Others(out, g) == SelectSeq(out, LAMBDA m : m.desc \notin GroupMetrics(g))

\* C6: removing the key of one optional group, giving it a value of the
\* wrong type or a malformed element, leaves the observations of all other
\* groups, and build_info, system_info and up, as they are for the intact
\* document.
C6_GroupsIndependent ==
    (Scraped /\ Delivered) =>
        \A g \in Groups :
            device.body \in DamagedIn(g) =>
                Others(ch, g) = Others(CollectRun(client, Answer("ok", 200, FullDoc)).out, g)

IdentityValue(p) == At(device.body, p).v

\* C7: for a document whose five identity fields are strings Collect emits
\* exactly one build_info and exactly one system_info observation, both with
\* value 1 and the document's hostname as host; build_info carries the API
\* and firmware versions, system_info the model and the serial number.
C7_IdentityMetrics ==
    (Scraped /\ Delivered /\ IdentityResolves) =>
        /\ Cardinality(MetricsNamed("mbg_ltos_build_info")) = 1
        /\ Cardinality(MetricsNamed("mbg_ltos_system_info")) = 1
        /\ \A i \in MetricsNamed("mbg_ltos_build_info") :
              ch[i] = [desc      |-> "mbg_ltos_build_info",
                       valueType |-> "gauge",
                       value     |-> One,
                       labels    |->
                           [host |-> IdentityValue(HostnamePath),
                            api_version |-> IdentityValue(<<"data", "rest-api", "api-version">>),
                            firmware_version |-> IdentityValue(<<"system-information", "version">>)]]
        /\ \A i \in MetricsNamed("mbg_ltos_system_info") :
              ch[i] = [desc      |-> "mbg_ltos_system_info",
                       valueType |-> "gauge",
                       value     |-> One,
                       labels    |->
                           [host |-> IdentityValue(HostnamePath),
                            model |-> IdentityValue(<<"system-information", "model">>),
                            serial_number |-> IdentityValue(<<"system-information", "serial-number">>)]]

\* a scrape of a document with another hostname than the sample's, and one
\* that ended in a panic after the two info metrics were sent
C7_Witness ==
    /\ Scraped /\ Delivered /\ IdentityResolves
    /\ IdentityValue(HostnamePath) = <<"x">>
    /\ Len(ch) > 2

\* C8: within one scrape every observation with a host label, the `up` of a
\* failed fetch aside, carries the hostname of the fetched document.
C8_SingleHost ==
    (Scraped /\ Delivered) =>
        \A i \in 1..Len(ch) :
            "host" \in DOMAIN ch[i].labels =>
                /\ At(device.body, HostnamePath).t = "string"
                /\ ch[i].labels.host = IdentityValue(HostnamePath)

\* a complete scrape of a document whose hostname is not the sample's
C8_Witness ==
    /\ status = "returned" /\ Delivered
    /\ IdentityValue(HostnamePath) = <<"x">>
    /\ Cardinality({ch[i].desc : i \in 1..Len(ch)}) >= 20

----------------------------------------------------------------------------
(* the CPU load group *)

SystemPath == <<"data", "system">>

CPULoadPath == <<"data", "system", "cpuload">>

\* the metrics of one name, in the order they were sent
Named(out, name) == SelectSeq(out, LAMBDA m : m.desc = name)

\* the document with key k of its data.system object set to value y
WithSystemField(doc, k, y) ==
    Put(doc, SystemPath, Obj((k :> y) @@ At(doc, SystemPath).v))

CPULoadMetric(value, period) ==
    [desc      |-> "mbg_ltos_system_cpu_load_avg",
     valueType |-> "gauge",
     value     |-> value,
     labels    |-> [host |-> At(device.body, HostnamePath).v, period |-> period]]

\* the three observations the code derives from a cpuload string that parses
CPULoadMetrics(r) ==
    <<CPULoadMetric(r.load1, <<"1">>),
      CPULoadMetric(r.load5, <<"5">>),
      CPULoadMetric(r.load15, <<"1", "5">>)>>

\* what the claim says of the scrape in the current state
CPULoadAllOrNone ==
    LET v      == At(device.body, CPULoadPath)
        sent   == Named(ch, "mbg_ltos_system_cpu_load_avg")
        parsed == v.t = "string" /\ ~parseCPULoad(v.v).err
    IN  /\ parsed => sent = CPULoadMetrics(parseCPULoad(v.v))
        /\ ~parsed => sent = <<>>
        /\ (~parsed /\ At(device.body, SystemPath).t = "map") =>
              Others(ch, "cpuload") =
              Others(CollectRun(client, Answer("ok", 200,
                         WithSystemField(device.body, "cpuload",
                                         At(FullDoc, CPULoadPath)))).out, "cpuload")

C11_WitnessParsed ==
    /\ Scraped /\ Delivered /\ IdentityResolves
    /\ At(device.body, CPULoadPath) = Str(<<"0", " ", "0", " ", "0">>)
    /\ Len(Named(ch, "mbg_ltos_system_cpu_load_avg")) = 3

----------------------------------------------------------------------------
(* the memory group *)

MemoryPath == <<"data", "system", "memory">>

MemoryMetric(name, value) ==
    [desc      |-> name,
     valueType |-> "gauge",
     value     |-> value,
     labels    |-> [host |-> At(device.body, HostnamePath).v]]

\* what the claim says of the scrape in the current state
MemoryBothOrNeither ==
    LET v      == At(device.body, MemoryPath)
        parsed == v.t = "string" /\ ~parseMemory(v.v).err
        bytes  == Named(ch, "mbg_ltos_system_memory_bytes")
        frees  == Named(ch, "mbg_ltos_system_memory_free_bytes")
    IN  /\ parsed =>
              /\ bytes = <<MemoryMetric("mbg_ltos_system_memory_bytes",
                                        parseMemory(v.v).totalBytes)>>
              /\ frees = <<MemoryMetric("mbg_ltos_system_memory_free_bytes",
                                        parseMemory(v.v).freeBytes)>>
        /\ ~parsed => bytes = <<>> /\ frees = <<>>

C12_WitnessUnparsed ==
    /\ status = "returned" /\ Delivered /\ IdentityResolves
    /\ At(device.body, MemoryPath) = Str(<<"0", " ", "0", " ", "0">>)
    /\ Named(ch, "mbg_ltos_system_memory_bytes") = <<>>
    /\ Len(ch) > 20

----------------------------------------------------------------------------
(* the events group *)

EventsPath == <<"data", "notification", "events">>

\* the entries of data.notification.events, <<>> when it is not a list
EventEntries ==
    LET v == At(device.body, EventsPath)
    IN  IF v.t = "slice" THEN v.v ELSE <<>>

\* an entry with the three string fields the claim speaks of
IsEventEntry(e) ==
    /\ e.t = "map"
    /\ \A k \in {"type", "object-id", "last-triggered"} : At(e, <<k>>).t = "string"

\* the event observations of the scrape that carry the entry's type and object-id
EventMetricsOf(e) ==
    SelectSeq(Named(ch, "mbg_ltos_event"),
              LAMBDA m : m.labels.type = e.v["type"].v /\ m.labels.event = e.v["object-id"].v)

EventMetric(e) ==
    [desc      |-> "mbg_ltos_event",
     valueType |-> "counter",
     value     |-> F(parseTime(e.v["last-triggered"].v).unix),
     labels    |-> [host  |-> At(device.body, HostnamePath).v,
                    type  |-> e.v["type"].v,
                    event |-> e.v["object-id"].v]]

\* C13: for every entry of data.notification.events, a last-triggered of
\* "never" yields no observation for the entry, and a last-triggered of the
\* form YYYY-MM-DDTHH:MM:SS yields exactly one event observation, a counter
\* labelled with the entry's type and object-id whose value is the
\* timestamp in Unix epoch seconds.
C13_EventPerEntry ==
    (Scraped /\ Delivered /\ IdentityResolves) =>
        \A i \in 1..Len(EventEntries) :
            LET e == EventEntries[i]
            IN  IsEventEntry(e) =>
                    IF e.v["last-triggered"].v = never
                    THEN EventMetricsOf(e) = <<>>
                    ELSE ~parseTime(e.v["last-triggered"].v).err =>
                             EventMetricsOf(e) = <<EventMetric(e)>>

\* the same holds of every scrape that did not panic
C13_HoldsWithoutPanic ==
    status = "panicked" \/ C13_EventPerEntry

\* a complete scrape with a "never" entry and a timestamped one
C13_Sample ==
    /\ status = "returned" /\ Delivered /\ IdentityResolves
    /\ Len(EventEntries) = 2
    /\ Len(Named(ch, "mbg_ltos_event")) = 1
    /\ Named(ch, "mbg_ltos_event")[1].value = F(1770847507)

----------------------------------------------------------------------------
(* the blocks of a clock slot *)

\* the entries of data.chassis0.slots, <<>> when it is not a list
SlotEntries ==
    LET v == At(device.body, SlotsPath)
    IN  IF v.t = "slice" THEN v.v ELSE <<>>

\* a slot of type "clk" with a slot-id and a module object
IsClkSlot(slot) ==
    /\ slot.t = "map"
    /\ At(slot, <<"slot-type">>) = Str(clk)
    /\ At(slot, <<"slot-id">>).t = "string"
    /\ At(slot, <<"module">>).t = "map"

SubBlockMetrics(b) ==
    CASE b = "info"       -> {c.receiverInfo.name}
      [] b = "satellites" -> {c[f].name : f \in {"rcvGNSSSatInView", "rcvGNSSSatGood",
                                  "rcvGNSSLatitude", "rcvGNSSLongitude", "rcvGNSSAltitude"}}
      [] b = "grc"        -> {c[f].name : f \in {"rcvAntConnected", "rcvAntShortCircuit",
                                  "rcvSynced", "rcvTracking", "rcvColdBoot", "rcvWarmBoot"}}

\* the observations other than those of block b of the slot with this id
WithoutSubBlock(out, slotID, b) ==
    SelectSeq(out, LAMBDA m : ~(/\ m.desc \in SubBlockMetrics(b)
                                /\ m.labels.slot_id = slotID))

\* the document with block b of the module of slot i set to y
WithSubBlock(doc, i, b, y) ==
    LET slots == At(doc, SlotsPath).v
        slot  == slots[i].v
    IN  Put(doc, SlotsPath,
            Arr([slots EXCEPT ![i] =
                   Obj([slot EXCEPT !["module"] = Obj((b :> y) @@ slot["module"].v)])]))

\* C14: for every "clk" slot with a module object, when one of the blocks
\* info, satellites, grc is absent or is not an object, the observations of
\* the slot's other two blocks and of every other slot (and of everything
\* else) are those of the same document with that block present.
C14_SubBlocksIndependent ==
    (Scraped /\ Delivered /\ IdentityResolves) =>
        \A i \in 1..Len(SlotEntries) : \A b \in ClkSubBlocks :
            (IsClkSlot(SlotEntries[i]) /\ At(SlotEntries[i], <<"module", b>>).t # "map") =>
                LET slotID  == SlotEntries[i].v["slot-id"].v
                    present == WithSubBlock(device.body, i, b,
                                            At(ClockSlot2, <<"module", b>>))
                IN  WithoutSubBlock(ch, slotID, b) =
                    WithoutSubBlock(CollectRun(client, Answer("ok", 200, present)).out,
                                    slotID, b)

\* a complete scrape of two clock modules, the first without its satellites
\* block: it has its info and GRC observations, the other module all of its own
C14_Witness ==
    /\ status = "returned" /\ Delivered /\ IdentityResolves
    /\ Len(SlotEntries) = 3
    /\ IsClkSlot(SlotEntries[2]) /\ IsClkSlot(SlotEntries[3])
    /\ At(SlotEntries[2], <<"module", "satellites">>).t # "map"
    /\ Len(SelectSeq(ch, LAMBDA m : "slot_id" \in DOMAIN m.labels
                                    /\ m.labels.slot_id = <<"c", "l", "k", "1">>)) = 7
    /\ Len(SelectSeq(ch, LAMBDA m : "slot_id" \in DOMAIN m.labels
                                    /\ m.labels.slot_id = <<"c", "l", "k", "2">>)) = 12

----------------------------------------------------------------------------
(* FetchStatus *)

\* the connection fails before a response arrives, or while the body is read
TransportFails == device.net # "ok"

StatusIs2xx == device.code \in 200..299

\* the body is JSON text: an object, a list, a string, a number, a boolean or null
BodyIsJSON == device.body.t # "malformed"

\* C15: FetchStatus returns an error and no document whenever the transport
\* fails (a timeout included), the status of the response is not 2xx, or the
\* body is not valid JSON.
C15_FetchErrors ==
    (Scraped /\ (TransportFails \/ ~StatusIs2xx \/ ~BodyIsJSON)) =>
        fetched.err /\ fetched.data = <<>>

\* a scrape of a device that answers 200 with a body that is not JSON: the
\* request was sent and FetchStatus returned an error
C15_Witness ==
    /\ Scraped
    /\ ~TransportFails /\ StatusIs2xx /\ ~BodyIsJSON
    /\ Len(requests) = 1
    /\ fetched.err

\* a scrape that ran into a timeout, and one that met status 404
C15_WitnessTimeout ==
    Scraped /\ device.net = "timeout" /\ Len(requests) = 1 /\ fetched.err

C15_WitnessStatus ==
    Scraped /\ device.code = 404 /\ Len(requests) = 1 /\ fetched.err

\* the request was sent and a response arrived whole
Responded == requests # <<>> /\ ~TransportFails

\* C16 as it is worded: for every response with a 2xx status whose body is a
\* JSON object, FetchStatus returns the decoded document and no error.
C16_Original ==
    (Scraped /\ Responded /\ StatusIs2xx /\ device.body.t = "map") =>
        ~fetched.err /\ fetched.data = device.body.v

\* C16, amended: for every response with status 200 whose body is a JSON
\* object, an empty one or one without the expected keys included,
\* FetchStatus returns the decoded document unchanged and no error.
C16_FetchDelivers ==
    (Scraped /\ Responded /\ device.code = 200 /\ device.body.t = "map") =>
        ~fetched.err /\ fetched.data = device.body.v

\* a scrape of a device that answers 200 with the empty object
C16_Witness ==
    /\ Scraped /\ Responded /\ device.code = 200
    /\ device.body = Obj(<<>>)
    /\ ~fetched.err
    /\ fetched.data = <<>>

\* a scrape of a device that answers 200 with a document that lacks keys
C16_WitnessPartial ==
    /\ Scraped /\ Responded /\ device.code = 200
    /\ device.body = BuildInfoTestDoc
    /\ ~fetched.err
    /\ DOMAIN fetched.data = {"system-information", "data"}

----------------------------------------------------------------------------
(* scrape after scrape *)

StatusRequest ==
    [method    |-> "GET",
     url       |-> client.baseURL \o apiStatus,
     basicAuth |-> IF client.authBasicUser # <<>> /\ client.authBasicPass # <<>>
                   THEN <<client.authBasicUser, client.authBasicPass>>
                   ELSE <<>>]

\* FetchStatus fails on the device's present answer
FetchFailsNow ==
    \/ TransportFails
    \/ device.code # 200
    \/ device.body.t \notin {"map", "nil"}

\* C18 as it is worded: every Collect call issues exactly one HTTP GET to
\* <baseURL>/api/status, also right after a failed fetch, and its outcome is
\* that of the device's present answer, whatever the scrapes before fetched.
C18_Original ==
    [][device' = device =>
          /\ Len(requests') = 1
          /\ requests'[1].method = "GET"
          /\ requests'[1].url = client.baseURL \o apiStatus
          /\ fetched'.err = FetchFailsNow]_vars

\* C18, amended: every Collect call issues at most one HTTP GET, to
\* <baseURL>/api/status, and exactly one unless no request can be built from
\* the base URL; after a failed fetch the scrape makes no further attempt,
\* and the next scrape makes a new one whose outcome is that of the device's
\* present answer, whatever the scrapes before fetched.
C18_OneFetchPerScrape ==
    [][device' = device =>
          IF NewRequestFails(client.baseURL \o apiStatus)
          THEN requests' = <<>> /\ fetched'.err
          ELSE /\ requests' = <<StatusRequest>>
               /\ fetched'.err = FetchFailsNow]_vars

\* a scrape that fetched a document after the first scrape had failed
C18_Witness ==
    /\ status = "returned"
    /\ firstScrape.fetched.err
    /\ ~fetched.err
    /\ requests = <<StatusRequest>>
    /\ Len(ch) > 20

----------------------------------------------------------------------------
(* overlapping scrapes *)

\* a device answer from which FetchStatus returns f
AnswerOf(f) ==
    IF f.err THEN Answer("ok", 503, Nil) ELSE Answer("ok", 200, Obj(f.data))

\* the host of the document a call fetched
HostOf(f) ==
    IF f.err THEN unknown ELSE At(Obj(f.data), HostnamePath).v

C19_WitnessOverlap ==
    /\ \A id \in Calls : calls[id].pc = "fetched" /\ Len(calls[id].out) = 2
    /\ calls["a"].fetched # calls["b"].fetched

----------------------------------------------------------------------------
(* the labels of slot observations *)

\* the slot-id of every entry of data.chassis0.slots that has one
SlotIDs ==
    {SlotEntries[i].v["slot-id"].v :
        i \in {j \in 1..Len(SlotEntries) :
                  SlotEntries[j].t = "map" /\ At(SlotEntries[j], <<"slot-id">>).t = "string"}}

\* observation m carries host and the slot-id of an entry as slot_id
HasSlotLabels(m) ==
    /\ "host" \in DOMAIN m.labels
    /\ "slot_id" \in DOMAIN m.labels
    /\ m.labels.slot_id \in SlotIDs

\* C20: every observation that Collect derives from an entry of
\* data.chassis0.slots carries, besides host, a slot_id label equal to the
\* entry's slot-id.
C20_SlotLabels ==
    (Scraped /\ Delivered) =>
        \A i \in 1..Len(ch) :
            ch[i].desc \in GroupMetrics("slots") => HasSlotLabels(ch[i])

\* the same holds of every observation derived from a slot of type "clk"
C20_HoldsForClk ==
    (Scraped /\ Delivered) =>
        \A i \in 1..Len(ch) :
            ch[i].desc \in GroupMetrics("slots") \ {c.systemCPUInfo.name} =>
                HasSlotLabels(ch[i])

\* a complete scrape of two clock modules: their observations differ in slot_id
C20_Sample ==
    /\ status = "returned" /\ Delivered
    /\ {ch[i].labels.slot_id : i \in {j \in 1..Len(ch) : "slot_id" \in DOMAIN ch[j].labels}}
          = {<<"c", "l", "k", "1">>, <<"c", "l", "k", "2">>}

----------------------------------------------------------------------------
(* the health check of the client *)

HealthBodies == {FullDoc, Obj(<<>>), Nil, Malformed, Arr(<<>>), Str(<<"x">>)}

\* the answers of a device to the health check: the connection is refused,
\* times out, breaks while the body is read, or delivers the body whole
HealthDevices ==
    {Answer(n, k, b) : n \in {"ok", "refused", "timeout", "reset"},
                       k \in {200, 201, 204, 301, 401, 404, 500},
                       b \in HealthBodies}

InitHealth ==
    /\ client \in Clients
    /\ device \in HealthDevices
    /\ ch = <<>>
    /\ status = "idle"
    /\ requests = <<>>
    /\ fetched = NoResult
    /\ calls = [id \in Calls |-> IdleCall]
    /\ firstScrape = NoResult
    /\ cpuloadStr = <<>>
    /\ cpuResult = NoResult
    /\ memoryStr = <<>>
    /\ memResult = NoResult
    /\ health = NoResult

CallCheckHealth ==
    /\ health = NoResult
    /\ health' = CheckHealth(client, device)
    /\ UNCHANGED <<client, device, ch, status, requests, fetched, calls,
                   firstScrape, cpuloadStr, cpuResult, memoryStr, memResult>>

SpecHealth == InitHealth /\ [][CallCheckHealth]_vars

\* the connection failed before the response's status line arrived
NoResponse == device.net \in {"refused", "timeout"}

C21_WitnessBroken ==
    /\ health.called /\ health.healthy /\ device.net = "reset"

C21_WitnessStatus ==
    /\ health.called /\ ~health.healthy /\ health.err
    /\ device.net = "ok" /\ device.code = 204

----------------------------------------------------------------------------
(* the sub-blocks of a clock module *)

ClkBlocks == {"info", "satellites", "antenna", "receiver"}

\* where a sub-block sits in a slot entry
ClkBlockPath(b) ==
    CASE b = "info"       -> <<"module", "info">>
      [] b = "satellites" -> <<"module", "satellites">>
      [] b = "antenna"    -> <<"module", "grc", "antenna">>
      [] b = "receiver"   -> <<"module", "grc", "receiver">>

\* the fields Collect reads from a sub-block, and the type it asserts
ClkBlockFields(b) ==
    CASE b = "info"       -> [k \in {"model", "serial-number", "software-revision"} |-> "string"]
      [] b = "satellites" -> [k \in {"satellites-in-view", "good-satellites", "latitude",
                                     "longitude", "altitude"} |-> "float64"]
      [] b = "antenna"    -> [k \in {"connected", "short-circuit"} |-> "bool"]
      [] b = "receiver"   -> [k \in {"synchronized", "tracking", "warm-boot",
                                     "cold-boot"} |-> "bool"]

ClkBlockMetrics(b) ==
    CASE b = "info"       -> {c.receiverInfo.name}
      [] b = "satellites" -> {c[f].name : f \in {"rcvGNSSSatInView", "rcvGNSSSatGood",
                                  "rcvGNSSLatitude", "rcvGNSSLongitude", "rcvGNSSAltitude"}}
      [] b = "antenna"    -> {c.rcvAntConnected.name, c.rcvAntShortCircuit.name}
      [] b = "receiver"   -> {c[f].name : f \in {"rcvSynced", "rcvTracking",
                                  "rcvColdBoot", "rcvWarmBoot"}}

\* sub-block b of the slot entry is an object and one of its fields is
\* missing or of another type than the one Collect asserts
ClkBlockIncomplete(slot, b) ==
    /\ IsClkSlot(slot)
    /\ At(slot, ClkBlockPath(b)).t = "map"
    /\ \E k \in DOMAIN ClkBlockFields(b) :
           At(slot, ClkBlockPath(b) \o <<k>>).t # ClkBlockFields(b)[k]

\* the observations of sub-block b of the slot with this id
ClkBlockObservations(out, slotID, b) ==
    SelectSeq(out, LAMBDA m : m.desc \in ClkBlockMetrics(b) /\ m.labels.slot_id = slotID)

ClkAllOrNone(bs) ==
    (Scraped /\ Delivered /\ IdentityResolves) =>
        \A i \in 1..Len(SlotEntries) : \A b \in bs :
            ClkBlockIncomplete(SlotEntries[i], b) =>
                ClkBlockObservations(ch, SlotEntries[i].v["slot-id"].v, b) = <<>>

\* C22: when a field of one of the four sub-blocks of a "clk" slot (module
\* info, GNSS satellites, GRC antenna, GRC receiver) is missing or of the
\* wrong type, no observation of that sub-block has been emitted for the slot.
C22_SubBlockAllOrNone == ClkAllOrNone(ClkBlocks)

\* it holds of the info and satellites blocks, whose fields are all read
\* before the first observation is sent
C22_HoldsForInfoAndSatellites == ClkAllOrNone({"info", "satellites"})

\* a scrape that ended in the panic of a satellites block with a wrong field
C22_Sample ==
    /\ status = "panicked" /\ Delivered /\ IdentityResolves
    /\ \E i \in 1..Len(SlotEntries) : ClkBlockIncomplete(SlotEntries[i], "satellites")

----------------------------------------------------------------------------
(* the labels of the receiver_info observation *)

\* the field of a slot entry that each label of receiver_info is read from
ReceiverInfoSources ==
    ("slot_id"           :> <<"slot-id">>)
 @@ ("model"             :> <<"module", "info", "model">>)
 @@ ("serial_number"     :> <<"module", "info", "serial-number">>)
 @@ ("software_revision" :> <<"module", "info", "software-revision">>)
 @@ ("oscillator_type"   :> <<"module", "sync-status", "osc-type">>)

\* every label in ls of observation m is the value of its source field in
\* one and the same slot entry of the document
LabelsFromDocument(m, ls) ==
    \E i \in 1..Len(SlotEntries) :
        \A l \in ls : At(SlotEntries[i], ReceiverInfoSources[l]) = Str(m.labels[l])

ReceiverInfoFromDocument(ls) ==
    (Scraped /\ Delivered /\ IdentityResolves) =>
        \A i \in 1..Len(ch) :
            ch[i].desc = c.receiverInfo.name => LabelsFromDocument(ch[i], ls)

\* C23: every label value of the receiver_info observation of a "clk" slot
\* is the value of its source field in the fetched document; for a module
\* whose source of oscillator_type (sync-status.osc-type) is missing no
\* receiver_info observation is emitted, rather than one with a default.
C23_NoSubstitutedDefault == ReceiverInfoFromDocument(DOMAIN ReceiverInfoSources)

\* the labels other than oscillator_type are always those of the document
C23_HoldsForOtherLabels ==
    ReceiverInfoFromDocument(DOMAIN ReceiverInfoSources \ {"oscillator_type"})

\* a complete scrape of a document with a clock module without sync-status
C23_Sample ==
    /\ status = "returned" /\ Delivered /\ IdentityResolves
    /\ \E i \in 1..Len(SlotEntries) :
           /\ IsClkSlot(SlotEntries[i])
           /\ At(SlotEntries[i], <<"module", "info">>).t = "map"
           /\ At(SlotEntries[i], <<"module", "sync-status">>).t # "map"

----------------------------------------------------------------------------
(* the descriptors Describe announces *)

Described == {Describe[i].name : i \in 1..Len(Describe)}

DescribedAll(out) == \A i \in 1..Len(out) : out[i].desc \in Described

\* C24: every observation Collect emits uses a descriptor that Describe
\* sends, for every document, those with a "cpu" slot included.
C24_CollectWithinDescribe == Scraped => DescribedAll(ch)

\* it holds of every observation but system_cpu_info
C24_HoldsWithoutCPUInfo ==
    Scraped => DescribedAll(SelectSeq(ch, LAMBDA m : m.desc # c.systemCPUInfo.name))

\* a complete scrape of a document with a "cpu" slot and a clock module
C24_Sample ==
    /\ status = "returned"
    /\ Named(ch, c.systemCPUInfo.name) # <<>>
    /\ Named(ch, c.receiverInfo.name) # <<>>

----------------------------------------------------------------------------
(* observations of one scrape with the same name and labels *)

ListAt(path) ==
    LET v == At(device.body, path)
    IN  IF v.t = "slice" THEN v.v ELSE <<>>

\* two entries of the list have the same strings in all the given fields
Repeats(list, fields) ==
    \E i, j \in 1..Len(list) :
        /\ i < j
        /\ \A p \in fields : At(list[i], p).t = "string" /\ At(list[i], p) = At(list[j], p)

CPUSlots == SelectSeq(SlotEntries, LAMBDA s : At(s, <<"slot-type">>) = Str(cpu))

RepeatsAKey ==
    \/ Repeats(ListAt(EventsPath), {<<"type">>, <<"object-id">>})
    \/ Repeats(ListAt(<<"data", "system", "storage">>), {<<"mountpoint">>})
    \/ Repeats(SlotEntries, {<<"slot-id">>})
    \/ Repeats(CPUSlots, {<<"module", "info", "model">>,
                          <<"module", "info", "serial-number">>})

NoDuplicates(out) ==
    \A i, j \in 1..Len(out) :
        (i < j) => ~(out[i].desc = out[j].desc /\ out[i].labels = out[j].labels)

\* C25: no two observations of one scrape have the same metric name and the
\* same label values, whatever the document repeats.
C25_NoDuplicates == Scraped => NoDuplicates(ch)

\* it holds of the documents in which no event (type, object-id), mountpoint,
\* slot-id or cpu (model, serial number) occurs twice
C25_HoldsWithoutRepeats == (Scraped /\ ~RepeatsAKey) => NoDuplicates(ch)

\* a complete scrape of a document with the twin cpu module
C25_Sample ==
    /\ status = "returned" /\ device.body = TwinCPUDoc
    /\ Len(Named(ch, c.systemCPUInfo.name)) = 2

----------------------------------------------------------------------------
(* events whose timestamp does not parse *)

\* an entry whose last-triggered is a string other than "never" that
\* time.Parse rejects
Unparseable(e) ==
    /\ IsEventEntry(e)
    /\ e.v["last-triggered"].v # never
    /\ parseTime(e.v["last-triggered"].v).err

Timestamped(e) ==
    /\ IsEventEntry(e)
    /\ e.v["last-triggered"].v # never
    /\ ~parseTime(e.v["last-triggered"].v).err

\* the observations of a list of well-formed entries, in the order of the list
RECURSIVE EventsInOrder(_)
EventsInOrder(es) ==
    IF es = <<>> THEN <<>>
    ELSE (IF Timestamped(Head(es)) THEN <<EventMetric(Head(es))>> ELSE <<>>)
         \o EventsInOrder(Tail(es))

\* the document without entry i of its events list
WithoutEvent(i) == Drop(device.body, EventsPath \o <<IndexKey[i]>>)

C26_WitnessOrder ==
    /\ status = "returned" /\ Delivered /\ IdentityResolves
    /\ Len(Named(ch, c.event.name)) = 2

----------------------------------------------------------------------------
(* the entries of the storage list *)

StoragePath == <<"data", "system", "storage">>

StorageEntries == ListAt(StoragePath)

StorageMetric(td, e, k) ==
    [desc      |-> td.name,
     valueType |-> "gauge",
     value     |-> At(e, <<k>>).v,
     labels    |-> [host  |-> At(device.body, HostnamePath).v,
                    mount |-> At(e, <<"mountpoint">>).v]]

\* what the claim expects of one entry
StorageOf(e) ==
    IF e.t # "map" \/ At(e, <<"mountpoint">>).t # "string" THEN <<>>
    ELSE (IF At(e, <<"size">>).t = "float64"
          THEN <<StorageMetric(c.storageCapacity, e, "size")>> ELSE <<>>)
      \o (IF At(e, <<"used">>).t = "float64"
          THEN <<StorageMetric(c.storageUsed, e, "used")>> ELSE <<>>)

RECURSIVE StorageInOrder(_)
StorageInOrder(es) ==
    IF es = <<>> THEN <<>> ELSE StorageOf(Head(es)) \o StorageInOrder(Tail(es))

\* the document lets Collect come as far as the storage list: data.system is
\* an object and no entry of the events list is malformed
ReachesStorage ==
    /\ IdentityResolves
    /\ At(device.body, SystemPath).t = "map"
    /\ \A i \in 1..Len(EventEntries) : IsEventEntry(EventEntries[i])

C27_WitnessSkipped ==
    /\ Scraped /\ Delivered /\ ReachesStorage
    /\ Len(StorageEntries) = 2
    /\ StorageOf(StorageEntries[1]) = <<>>
    /\ Len(Named(ch, c.storageUsed.name)) = 1
    /\ Len(Named(ch, c.storageCapacity.name)) = 1

----------------------------------------------------------------------------
(* the credentials of the request *)

BothCredentials == client.authBasicUser # <<>> /\ client.authBasicPass # <<>>

\* C28: the request of FetchStatus carries Basic credentials, the configured
\* user and password, exactly when both are non-empty; with one or both
\* empty it is sent without credentials, and the fetch fails or succeeds as
\* it does with any other configuration.
C28_BasicAuthIffBoth ==
    Scraped =>
        /\ \A i \in DOMAIN requests :
               requests[i].basicAuth =
                   IF BothCredentials
                   THEN <<client.authBasicUser, client.authBasicPass>>
                   ELSE <<>>
        /\ ~BothCredentials => (Delivered <=> ~fetched.err)

\* a user without a password: the request goes out bare and the fetch succeeds
C28_Witness ==
    /\ Scraped
    /\ client.authBasicUser # <<>> /\ client.authBasicPass = <<>>
    /\ Len(requests) = 1 /\ requests[1].basicAuth = <<>>
    /\ ~fetched.err

C28_WitnessBoth ==
    /\ Scraped /\ BothCredentials
    /\ Len(requests) = 1 /\ requests[1].basicAuth # <<>>

----------------------------------------------------------------------------
(* the collector revision whose parsers are methods *)

\* (*Collector).parseCPULoad: fewer than three fields give zeros and a nil
\* error, and the errors of strconv.ParseFloat are dropped (load1, _ := ...),
\* which leaves 0 for a field that does not parse; err is nil on every path
Collector_parseCPULoad(s) ==
    LET parts == Fields(s)
    IN  IF Len(parts) < 3
        THEN [err |-> FALSE, load1 |-> Zero, load5 |-> Zero, load15 |-> Zero]
        ELSE [err |-> FALSE,
              load1  |-> ParseFloat(parts[1]).val,
              load5  |-> ParseFloat(parts[2]).val,
              load15 |-> ParseFloat(parts[3]).val]

\* the CPU load step of that revision's Collect for a system.cpuload string:
\* the three observations it sends when the parser's err is nil
Collect_cpuload(s, host) ==
    Bind(Collector_parseCPULoad(s), LAMBDA r :
        IF r.err THEN <<>>
        ELSE <<MustNewConstMetric(c.systemCPULoadAvg, r.load1, <<host, <<"1">>>>),
               MustNewConstMetric(c.systemCPULoadAvg, r.load5, <<host, <<"5">>>>),
               MustNewConstMetric(c.systemCPULoadAvg, r.load15, <<host, <<"1", "5">>>>)>>)

MaxMethodLen == 5

MethodCPUStrings == UNION {[1..n -> CPUChars] : n \in 0..MaxMethodLen}

InitMethods ==
    /\ client = NewClient(<<>>, <<>>, <<>>)
    /\ device = Answer("ok", 200, FullDoc)
    /\ ch = <<>>
    /\ status = "idle"
    /\ requests = <<>>
    /\ fetched = NoResult
    /\ calls = [id \in Calls |-> IdleCall]
    /\ firstScrape = NoResult
    /\ cpuloadStr \in MethodCPUStrings
    /\ cpuResult = NoResult
    /\ memoryStr = <<>>
    /\ memResult = NoResult
    /\ health = NoResult

\* Collect of that revision reaches its CPU load step with system.cpuload
\* holding cpuloadStr and the host of the document
CollectCPULoad ==
    /\ cpuResult = NoResult
    /\ cpuResult' = Collector_parseCPULoad(cpuloadStr)
    /\ ch' = Collect_cpuload(cpuloadStr, At(device.body, HostnamePath).v)
    /\ UNCHANGED <<client, device, status, requests, fetched, calls, firstScrape,
                   cpuloadStr, memoryStr, memResult, health>>

SpecMethods == InitMethods /\ [][CollectCPULoad]_vars

\* C29: in the revision whose parsers are methods, parseCPULoad returns an
\* error for every input with fewer than three tokens or whose first three
\* tokens do not all parse as numbers, and Collect then emits no
\* cpu_load_avg observation.
C29_MethodRejects ==
    (cpuResult # NoResult /\ ~ThreeNumbers(cpuloadStr)) =>
        cpuResult.err /\ Named(ch, c.systemCPULoadAvg.name) = <<>>

\* for three tokens that parse it returns their values and Collect emits them
C29_HoldsForThreeNumbers ==
    (cpuResult # NoResult /\ ThreeNumbers(cpuloadStr)) =>
        /\ ~cpuResult.err
        /\ cpuResult.load1 = ParseFloat(Token(cpuloadStr, 1)).val
        /\ cpuResult.load5 = ParseFloat(Token(cpuloadStr, 2)).val
        /\ cpuResult.load15 = ParseFloat(Token(cpuloadStr, 3)).val
        /\ Len(Named(ch, c.systemCPULoadAvg.name)) = 3

\* the step has run on two tokens
C29_Sample ==
    /\ cpuResult # NoResult
    /\ cpuloadStr = <<"1", " ", "2">>
    /\ Len(ch) = 3 /\ ch[1].value = Zero

====
